---- MODULE Spec2Model ----
(***************************************************************************)
(* Model of the pararius-alerts pipeline: the retrying fetcher and page    *)
(* walker of src/src/scraper.py, the reconciler of src/src/storage.py and  *)
(* the run sequence of src/src/main.py.                                    *)
(*                                                                         *)
(* A listing is a record; a Python list of dicts is a sequence of records. *)
(* Timestamps are integers (ticks of the clock `now`); max_age_days is     *)
(* measured in the same unit.  Python's None is NoneNum for a numeric      *)
(* field and NoneStr for a text field (dict.get of a missing key gives     *)
(* None as well, so a missing field and a None field are one value).       *)
(***************************************************************************)
EXTENDS Integers, Sequences, FiniteSets, TLC

VARIABLES
    pc,                    \* position of the running function
    now,                   \* datetime.now()
    max_age_days,          \* ListingStorage.max_age_days
    new_listings,          \* compare_listings argument / main's new_scraped_listings
    existing_listings,     \* compare_listings argument / main's existing_listings
    added_listings,        \* compare_listings result [0]
    updated_listings,      \* compare_listings result [1]
    all_current_listings,  \* compare_listings result [2]
    listings_file,         \* the content of data/listings.json
    removed_count,         \* main's removed_count
    file_at_start,         \* history: listings_file when the current run began
    crawled_always,        \* history: the ids that were in every crawl so far
    added_runs,            \* history: per id, the runs that classified it as added
    max_retries,           \* ParariusScraper.max_retries
    request_delay,         \* ParariusScraper.request_delay
    city_idx,              \* scrape_all_cities: position in config['cities']
    page,                  \* scrape_city: page
    attempt,               \* _make_request: attempt
    soup,                  \* what _make_request returned to scrape_city
    events,                \* the requests.get and time.sleep calls of the current _make_request
    city_listings,         \* scrape_city: all_listings
    all_listings,          \* scrape_all_cities: all_listings
    fetched,               \* history: the _make_request calls that returned, in order
    no_title_link,         \* the listing elements of the site that have no title link
    walks,                 \* history: what each scrape_city call returned, in order
    filters,               \* the search filters of ParariusScraper.config
    url,                   \* what _build_search_url returned last
    listing_elements,      \* scrape_city: listing_elements of the page in hand
    extracted,             \* history: what _extract_listing_data returned per element
    config,                \* what reading config.json gives
    notifications_enabled, \* GitHubNotifier.notifications_enabled
    stats,                 \* main's stats dict
    exit_code,             \* what main returned (NoneNum while it runs)
    run_stats_file,        \* the content of data/run_stats.json
    calls,                 \* history: how often the run called each function
    path,                  \* history: the exit path the run is on
    saved,                 \* history: what main's save_listings call returned
    posted,                \* history: what became of the notification
    last_run               \* history: what the run before this one did

compareVars == <<new_listings, existing_listings,
                 added_listings, updated_listings, all_current_listings>>
mainVars == <<listings_file, removed_count, file_at_start, crawled_always, added_runs>>

scrapeVars == <<max_retries, request_delay, city_idx, page, attempt, soup, events,
                city_listings, all_listings, fetched, no_title_link, walks,
                filters, url, listing_elements, extracted>>

runVars == <<config, notifications_enabled, stats, exit_code, run_stats_file,
             calls, path, saved, posted, last_run>>

vars == <<pc, now, max_age_days, compareVars, mainVars, scrapeVars, runVars>>

-----------------------------------------------------------------------------
(* Bounds of the model *)

MaxLen == 2          \* longest input list handed to compare_listings
MaxAgeDays == 2      \* the configured max_listings_age_days of the model
MaxRetries == 2      \* largest configured max_retries
MaxItems == 1        \* most listing elements on one page

(* Values *)

NoneNum == -1
NoneStr == "None"

\* main lines 85-93: the stats dict of a run that has done nothing yet
NewStats ==
    [success |-> FALSE, new_listings_count |-> 0, updated_listings_count |-> 0,
     total_listings_count |-> 0, notification_sent |-> FALSE, errors |-> <<>>]

NoCalls ==
    [load_listings |-> 0, save_listings |-> 0, scrape_all_cities |-> 0,
     send_notification |-> 0, save_run_stats |-> 0]

\* there was no run before this one
NoRun ==
    [crawl |-> <<>>, added |-> {}, updated |-> {}, saved |-> NoneStr, posted |-> NoneStr]

\* no run of main is modelled
RunIdle ==
    /\ config = "ok"
    /\ notifications_enabled = FALSE
    /\ stats = NewStats
    /\ exit_code = NoneNum
    /\ run_stats_file = <<>>
    /\ calls = NoCalls
    /\ path = "running"
    /\ saved = NoneStr
    /\ posted = NoneStr
    /\ last_run = NoRun

Ids == {"a", "b"}
Prices == {NoneNum, 1200, 1300}

-----------------------------------------------------------------------------
(* Sequence helpers *)

RECURSIVE SeqsUpTo(_, _)
SeqsUpTo(S, n) ==
    IF n = 0 THEN {<<>>}
    ELSE LET shorter == SeqsUpTo(S, n - 1)
         IN  shorter \cup {Append(s, x) : s \in {t \in shorter : Len(t) = n - 1}, x \in S}

IdsOf(listings) == {listings[i].id : i \in 1..Len(listings)}

LastWithId_First(listings, id) ==
    listings[CHOOSE i \in 1..Len(listings) :
                /\ listings[i].id = id
                /\ \A j \in 1..(i - 1) : listings[j].id # id]

\* the last element of a list carrying the id
LastWithId(listings, id) ==
    listings[CHOOSE i \in 1..Len(listings) :
                /\ listings[i].id = id
                /\ \A j \in (i + 1)..Len(listings) : listings[j].id # id]

RECURSIVE KeysInOrder(_)
KeysInOrder(listings) ==
    IF listings = <<>> THEN <<>>
    ELSE LET front == SubSeq(listings, 1, Len(listings) - 1)
             last  == listings[Len(listings)]
         IN  IF last.id \in IdsOf(front) THEN KeysInOrder(front)
             ELSE Append(KeysInOrder(front), last.id)

-----------------------------------------------------------------------------
(* scraper.py: the fetcher, the page walker and the crawl over the cities *)

cities == <<"rotterdam", "den-haag">>
max_pages == 5
RequestDelays == {0, 5}

\* what requests.get / raise_for_status can do
TransportOutcomes == {"ok", "http_error", "connection_error"}

\* a parsed page: its listing elements and whether it has a next-page link
Pages == [ok : {TRUE}, items : 0..MaxItems, has_next : BOOLEAN]

\* _make_request returned None
NoSoup == [ok |-> FALSE, items |-> 0, has_next |-> FALSE]

\* the entry of the history `fetched` for what _make_request returned
Fetched(c, p, s) == [city |-> c, page |-> p, ok |-> s.ok, items |-> s.items]

\* a key that the config dict does not have
Missing == -2

\* a config without search filters
NoFilters == [min |-> Missing, max |-> Missing,
              min_bedrooms |-> Missing, min_size |-> Missing]

\* the filters of the test configuration: 800-1500, 2 bedrooms, 50 m2
TestFilters == [min |-> 800, max |-> 1500, min_bedrooms |-> 2, min_size |-> 50]

\* dict.get(key, default): the default stands in for a missing key only
GetOr(value, default) == IF value = Missing THEN default ELSE value

Truthy_ZeroCounts(value) == value # NoneNum

\* Python's truth value of a number or None
Truthy(value) == value # NoneNum /\ value # 0

\* an f-string: the literal pieces with the formatted values between them
Segment(template, values) == [template |-> template, values |-> values]

\* _build_search_url lines 106-115: the price range
PriceSegment(price_min, price_max) ==
    LET min_price == GetOr(price_min, 0)
        max_price == GetOr(price_max, NoneNum)
    IN  IF min_price # NoneNum /\ max_price # NoneNum
        THEN <<Segment("{}-{}", <<min_price, max_price>>)>>
        ELSE IF Truthy(min_price) THEN <<Segment("{}+", <<min_price>>)>>
        ELSE IF Truthy(max_price) THEN <<Segment("0-{}", <<max_price>>)>>
        ELSE <<>>

\* lines 118-125: the bedrooms and the size filter
OptionalSegment(template, value) ==
    IF Truthy(GetOr(value, NoneNum)) THEN <<Segment(template, <<value>>)>> ELSE <<>>

\* lines 132-133
PageSegment(p) == IF p > 1 THEN <<Segment("page-{}", <<p>>)>> ELSE <<>>

\* _build_search_url: the url as the sequence of its path segments after
\* BASE_URL, to be joined with "/"
_build_search_url(city, f, p) ==
    <<Segment("{}", <<city>>)>>
        \o PriceSegment(f.min, f.max)
        \o OptionalSegment("{}-bedrooms", f.min_bedrooms)
        \o OptionalSegment("{}-m2", f.min_size)
        \o PageSegment(p)

Get(outcome) == [op |-> "get", arg |-> IF outcome = "ok" THEN 1 ELSE 0]
Sleep(secs)  == [op |-> "sleep", arg |-> secs]

ScraperIdle ==
    /\ max_retries = 0
    /\ request_delay = 0
    /\ city_idx = 0
    /\ page = 0
    /\ attempt = 0
    /\ soup = NoSoup
    /\ events = <<>>
    /\ city_listings = <<>>
    /\ all_listings = <<>>
    /\ fetched = <<>>
    /\ no_title_link = {}
    /\ walks = <<>>
    /\ filters = NoFilters
    /\ url = <<>>
    /\ listing_elements = <<>>
    /\ extracted = <<>>

\* line 79: except requests.RequestException
IsRequestException(outcome) == outcome \in {"http_error", "connection_error"}

IsLastAttempt_OffByOne(a) == a = max_retries

\* line 81: attempt == self.max_retries - 1
IsLastAttempt(a) == a = max_retries - 1

SuccessDelay_None(evs) == evs

\* line 76: time.sleep(self.request_delay)
SuccessDelay(evs) == Append(evs, Sleep(request_delay))

\* line 84: time.sleep(self.request_delay * 2)
RetryDelay(evs) == Append(evs, Sleep(request_delay * 2))

WalkDecision_IgnoresNextMarker(s, p) ==
    IF ~s.ok THEN "break"
    ELSE IF s.items = 0 THEN "break"
    ELSE IF p < max_pages THEN "next" ELSE "end"

WalkDecision_NoPageLimit(s, p) ==
    IF ~s.ok THEN "break"
    ELSE IF s.items = 0 THEN "break"
    ELSE IF ~s.has_next THEN "break"
    ELSE "next"

WalkDecision_ContinuesAfterFailure(s, p) ==
    IF s.ok /\ (s.items = 0 \/ ~s.has_next) THEN "break"
    ELSE IF p < max_pages THEN "next" ELSE "end"

\* scrape_city lines 243-270: what the loop does once page p is fetched
WalkDecision(s, p) ==
    IF ~s.ok THEN "break"
    ELSE IF s.items = 0 THEN "break"
    ELSE IF ~s.has_next THEN "break"
    ELSE IF p < max_pages THEN "next" ELSE "end"

\* line 253: the listing elements of page p of city c
ListingElements(s, c, p) == [k \in 1..s.items |-> [city |-> c, page |-> p, item |-> k]]

\* _extract_listing_data lines 149-152 and 226-228: an element without a title
\* link (or one whose parsing raises) gives the empty dict
IsEmptyData(elem) == elem \in no_title_link

\* lines 261-264: the non-empty records of the listing elements of a page
ExtractedFrom(s, c, p) ==
    LET NonEmpty(elem) == ~IsEmptyData(elem)
    IN  SelectSeq(ListingElements(s, c, p), NonEmpty)

\* the listing elements that may lack their title link
NoTitleLinks == {{}, {[city |-> 1, page |-> 1, item |-> 1]}}

Accumulated_DropsOnFailure(s, acc, c, p) ==
    IF s.ok THEN acc \o ExtractedFrom(s, c, p) ELSE <<>>

\* scrape_city lines 247-264 and 272: all_listings once page p is fetched; a
\* failed fetch breaks out of the loop with the list as it is
Accumulated(s, acc, c, p) ==
    IF s.ok THEN acc \o ExtractedFrom(s, c, p) ELSE acc

\* scrape_all_cities line 286: all_listings.extend(city_listings)
Extend(all, found) == all \o found

AfterWalk_StopsOnFailure(s) == IF s.ok THEN "cities" ELSE "returned"

\* scrape_all_cities lines 283-286: the loop goes on to the next city whatever
\* the last fetch of the walk returned
AfterWalk(s) == "cities"

InitScrape ==
    /\ pc = "cities"
    /\ now = 0
    /\ max_age_days = MaxAgeDays
    /\ new_listings = <<>>
    /\ existing_listings = <<>>
    /\ added_listings = <<>>
    /\ updated_listings = <<>>
    /\ all_current_listings = <<>>
    /\ listings_file = <<>>
    /\ removed_count = 0
    /\ file_at_start = <<>>
    /\ crawled_always = {}
    /\ added_runs = [i \in Ids |-> 0]
    /\ max_retries \in 0..MaxRetries
    /\ request_delay \in RequestDelays
    /\ city_idx = 0
    /\ page = 0
    /\ attempt = 0
    /\ soup = NoSoup
    /\ events = <<>>
    /\ city_listings = <<>>
    /\ all_listings = <<>>
    /\ fetched = <<>>
    /\ no_title_link \in NoTitleLinks
    /\ walks = <<>>
    /\ filters = TestFilters
    /\ url = <<>>
    /\ listing_elements = <<>>
    /\ extracted = <<>>
    /\ RunIdle

notScrape == <<now, max_age_days, compareVars, mainVars, runVars,
               listing_elements, extracted>>

\* scrape_all_cities lines 283-285: the next city; scrape_city starts at page 1
\* and calls _make_request
NextCity ==
    /\ pc = "cities"
    /\ city_idx < Len(cities)
    /\ city_idx' = city_idx + 1
    /\ page' = 1
    /\ city_listings' = <<>>
    /\ attempt' = 0
    /\ events' = <<>>
    /\ pc' = "fetch"
    /\ url' = _build_search_url(cities[city_idx'], filters, page')
    /\ UNCHANGED <<notScrape, max_retries, request_delay, soup, all_listings, fetched,
                   no_title_link, walks, filters>>

\* scrape_all_cities lines 288-289
ReturnAllListings ==
    /\ pc = "cities"
    /\ city_idx = Len(cities)
    /\ pc' = "returned"
    /\ UNCHANGED <<notScrape, scrapeVars>>

\* _make_request lines 69-84: one pass of the retry loop
Attempt ==
    /\ pc = "fetch"
    /\ attempt < max_retries
    /\ \E outcome \in TransportOutcomes :
          LET got == Append(events, Get(outcome))
          IN  IF outcome = "ok"
              THEN \E parsed \in Pages :
                      /\ events' = SuccessDelay(got)
                      /\ soup' = parsed
                      /\ fetched' = Append(fetched, Fetched(city_idx, page, parsed))
                      /\ pc' = "page"
                      /\ UNCHANGED attempt
              ELSE IF ~IsRequestException(outcome)
              THEN /\ events' = got
                   /\ pc' = "raised"
                   /\ UNCHANGED <<attempt, soup, fetched>>
              ELSE IF IsLastAttempt(attempt)
              THEN /\ events' = got
                   /\ soup' = NoSoup
                   /\ fetched' = Append(fetched, Fetched(city_idx, page, NoSoup))
                   /\ pc' = "page"
                   /\ UNCHANGED attempt
              ELSE /\ events' = RetryDelay(got)
                   /\ attempt' = attempt + 1
                   /\ UNCHANGED <<pc, soup, fetched>>
    /\ UNCHANGED <<notScrape, max_retries, request_delay, city_idx, page,
                   city_listings, all_listings, no_title_link, walks, filters, url>>

\* _make_request line 86: the loop ran out without returning
RetriesExhausted ==
    /\ pc = "fetch"
    /\ attempt >= max_retries
    /\ soup' = NoSoup
    /\ fetched' = Append(fetched, Fetched(city_idx, page, NoSoup))
    /\ pc' = "page"
    /\ UNCHANGED <<notScrape, max_retries, request_delay, city_idx, page, attempt,
                   events, city_listings, all_listings, no_title_link, walks,
                   filters, url>>

\* scrape_city lines 247-272 for the fetched page, and scrape_all_cities
\* line 286 when the walk of the city ends
ProcessPage ==
    /\ pc = "page"
    /\ LET found == Accumulated(soup, city_listings, city_idx, page)
       IN  IF WalkDecision(soup, page) = "next"
           THEN /\ city_listings' = found
                /\ page' = page + 1
                /\ attempt' = 0
                /\ events' = <<>>
                /\ pc' = "fetch"
                /\ url' = _build_search_url(cities[city_idx], filters, page')
                /\ UNCHANGED <<all_listings, walks>>
           ELSE /\ city_listings' = found
                /\ all_listings' = Extend(all_listings, found)
                /\ walks' = Append(walks, [city |-> city_idx, listings |-> found])
                /\ pc' = AfterWalk(soup)
                /\ UNCHANGED <<page, attempt, events, url>>
    /\ UNCHANGED <<notScrape, max_retries, request_delay, city_idx, soup, fetched,
                   no_title_link, filters>>

NextScrape ==
    \/ NextCity
    \/ ReturnAllListings
    \/ Attempt
    \/ RetriesExhausted
    \/ ProcessPage

SpecScrape == InitScrape /\ [][NextScrape]_vars

-----------------------------------------------------------------------------
(* storage.py: the reconciler *)

\* {listing['id']: listing for listing in listings}: a dict keeps its keys in
\* the order of first insertion and the value of the last insertion.  The dict
\* is the sequence of its values; the key of a value is its id.
ById_KeepDuplicates(listings) == listings

ById(listings) ==
    LET keys == KeysInOrder(listings)
    IN  [i \in 1..Len(keys) |-> LastWithId(listings, keys[i])]

\* listing_id in by_id
HasKey(by_id, id) == \E i \in 1..Len(by_id) : by_id[i].id = id

\* by_id[listing_id]
Lookup(by_id, id) == by_id[CHOOSE i \in 1..Len(by_id) : by_id[i].id = id]

_is_listing_updated_NullPriceIgnored(new_listing, existing_listing) ==
    \/ /\ new_listing.price # NoneNum
       /\ existing_listing.price # NoneNum
       /\ new_listing.price # existing_listing.price
    \/ new_listing.available # existing_listing.available
    \/ new_listing.description # existing_listing.description

_is_listing_updated_TimestampsToo(new_listing, existing_listing) ==
    \/ new_listing.price # existing_listing.price
    \/ new_listing.available # existing_listing.available
    \/ new_listing.description # existing_listing.description
    \/ new_listing.last_updated # existing_listing.last_updated

_is_listing_updated(new_listing, existing_listing) ==
    \/ new_listing.price # existing_listing.price
    \/ new_listing.available # existing_listing.available
    \/ new_listing.description # existing_listing.description

_is_listing_too_old_AtThreshold(listing, t) ==
    t - listing.first_seen >= max_age_days

\* a first_seen that datetime.fromisoformat cannot parse
Unparseable == -3

\* datetime.fromisoformat raises TypeError for None and ValueError for a
\* string that is no ISO date
FromIsoFormatRaises(first_seen) == first_seen \in {NoneNum, Unparseable}

_is_listing_too_old_BadIsOld(listing, t) ==
    LET first_seen == GetOr(listing.first_seen, t)
    IN  IF FromIsoFormatRaises(first_seen) THEN TRUE
        ELSE t - first_seen > max_age_days

\* lines 199-205 at time t: a missing first_seen is now, and the except
\* clause answers False when first_seen cannot be parsed
_is_listing_too_old(listing, t) ==
    LET first_seen == GetOr(listing.first_seen, t)
    IN  IF FromIsoFormatRaises(first_seen) THEN FALSE
        ELSE t - first_seen > max_age_days

UpdatedRecord_KeepsFreshFirstSeen(new_listing, existing_listing, t) ==
    [new_listing EXCEPT !.last_updated = t]

\* lines 142-143: the fresh record, mutated in place
UpdatedRecord(new_listing, existing_listing, t) ==
    [new_listing EXCEPT !.first_seen = existing_listing.first_seen,
                        !.last_updated = t]

IsAdded_Always(new_listing, existing_by_id) == TRUE

\* line 133
IsAdded(new_listing, existing_by_id) == ~HasKey(existing_by_id, new_listing.id)

\* line 140, for an id that is in existing_by_id
IsUpdated(new_listing, existing_by_id) ==
    /\ HasKey(existing_by_id, new_listing.id)
    /\ _is_listing_updated(new_listing, Lookup(existing_by_id, new_listing.id))

MergedRecord_KeepsFresh(new_listing, existing_by_id, t) ==
    IF IsAdded(new_listing, existing_by_id) THEN new_listing
    ELSE IF IsUpdated(new_listing, existing_by_id)
         THEN UpdatedRecord(new_listing, Lookup(existing_by_id, new_listing.id), t)
         ELSE new_listing

\* the value new_by_id holds for the key of new_listing when the loop ends
MergedRecord(new_listing, existing_by_id, t) ==
    IF IsAdded(new_listing, existing_by_id) THEN new_listing
    ELSE IF IsUpdated(new_listing, existing_by_id)
         THEN UpdatedRecord(new_listing, Lookup(existing_by_id, new_listing.id), t)
         ELSE Lookup(existing_by_id, new_listing.id)

AddedOf(new_by_id, existing_by_id) ==
    LET Test(l) == IsAdded(l, existing_by_id)
    IN  SelectSeq(new_by_id, Test)

UpdatedOf(new_by_id, existing_by_id, t) ==
    LET Test(l) == ~IsAdded(l, existing_by_id) /\ IsUpdated(l, existing_by_id)
        hits == SelectSeq(new_by_id, Test)
    IN  [i \in 1..Len(hits) |-> MergedRecord(hits[i], existing_by_id, t)]

PreservedOf_KeepsOld(new_by_id, existing_by_id, t) ==
    LET Test(l) == ~HasKey(new_by_id, l.id)
    IN  SelectSeq(existing_by_id, Test)

PreservedOf_IgnoresFresh(new_by_id, existing_by_id, t) ==
    LET Test(l) == ~_is_listing_too_old(l, t)
    IN  SelectSeq(existing_by_id, Test)

\* lines 151-154
PreservedOf(new_by_id, existing_by_id, t) ==
    LET Test(l) == ~HasKey(new_by_id, l.id) /\ ~_is_listing_too_old(l, t)
    IN  SelectSeq(existing_by_id, Test)

\* compare_listings(new, existing) called at time t
compare_listings(new, existing, t) ==
    LET existing_by_id == ById(existing)
        new_by_id      == ById(new)
        merged         == [i \in 1..Len(new_by_id) |->
                              MergedRecord(new_by_id[i], existing_by_id, t)]
    IN  [added   |-> AddedOf(new_by_id, existing_by_id),
         updated |-> UpdatedOf(new_by_id, existing_by_id, t),
         all_current |-> merged \o PreservedOf(new_by_id, existing_by_id, t)]

-----------------------------------------------------------------------------
(* Specification of compare_listings as a function of its two inputs *)

CompareNow == MaxAgeDays + 2

\* a record as _extract_listing_data builds it, one tick before the comparison
FreshRecords ==
    [id : Ids, title : {"fresh title"}, price : Prices,
     available : {NoneStr}, description : {NoneStr},
     first_seen : {CompareNow - 1}, last_updated : {CompareNow - 1}]

\* a record of an earlier run: too old, exactly at the age limit, or young
StoredRecords ==
    {[id |-> i, title |-> "stored title", price |-> p,
      available |-> NoneStr, description |-> NoneStr,
      first_seen |-> f, last_updated |-> f] :
        i \in Ids, p \in {NoneNum, 1200},
        f \in {0, CompareNow - MaxAgeDays, CompareNow - 1}}

InitCompare ==
    /\ pc = "compare"
    /\ now = CompareNow
    /\ max_age_days = MaxAgeDays
    /\ \/ /\ new_listings \in SeqsUpTo(FreshRecords, MaxLen)
          /\ existing_listings \in SeqsUpTo(StoredRecords, MaxLen)
       \/ /\ new_listings \in SeqsUpTo(StoredRecords, MaxLen)
          /\ existing_listings = new_listings
    /\ added_listings = <<>>
    /\ updated_listings = <<>>
    /\ all_current_listings = <<>>
    /\ listings_file = <<>>
    /\ removed_count = 0
    /\ file_at_start = <<>>
    /\ crawled_always = {}
    /\ added_runs = [i \in Ids |-> 0]
    /\ ScraperIdle
    /\ RunIdle

CompareListings ==
    /\ pc = "compare"
    /\ LET r == compare_listings(new_listings, existing_listings, now)
       IN  /\ added_listings' = r.added
           /\ updated_listings' = r.updated
           /\ all_current_listings' = r.all_current
    /\ pc' = "compared"
    /\ UNCHANGED <<now, max_age_days, new_listings, existing_listings, mainVars, runVars, scrapeVars>>

NextCompare == CompareListings

SpecCompare == InitCompare /\ [][NextCompare]_vars

(* compare_listings called again on its own result, as the next run does *)

\* the same crawl extracted again at time t: _extract_listing_data stamps
\* both timestamps anew (scraper.py lines 223-224)
ObservedAgain(listings, t) ==
    [i \in 1..Len(listings) |->
        [listings[i] EXCEPT !.first_seen = t, !.last_updated = t]]

\* the next compare_listings call: the stored set is what the first call
\* returned as all_current, the crawl is the same one observed again
CompareAgain ==
    /\ pc = "compared"
    /\ LET again == ObservedAgain(new_listings, now)
           r     == compare_listings(again, all_current_listings, now)
       IN  /\ new_listings' = again
           /\ existing_listings' = all_current_listings
           /\ added_listings' = r.added
           /\ updated_listings' = r.updated
           /\ all_current_listings' = r.all_current
    /\ pc' = "compared again"
    /\ UNCHANGED <<now, max_age_days, mainVars, runVars, scrapeVars>>

NextRecompare ==
    \/ CompareListings
    \/ CompareAgain

SpecRecompare == InitCompare /\ [][NextRecompare]_vars

-----------------------------------------------------------------------------
(* main.py: the pipeline, run after run over the persisted listings file *)

MaxClock == MaxAgeDays + 1

\* what one crawl can return: records stamped with the extraction time t
CrawledRecords(t) ==
    [id : Ids, title : {"fresh title"}, price : {1200, 1300},
     available : {NoneStr}, description : {NoneStr},
     first_seen : {t}, last_updated : {t}]

\* load_listings: the parsed content of the file
load_listings == listings_file

InitMain ==
    /\ pc = "idle"
    /\ now = 0
    /\ max_age_days = MaxAgeDays
    /\ new_listings = <<>>
    /\ existing_listings = <<>>
    /\ added_listings = <<>>
    /\ updated_listings = <<>>
    /\ all_current_listings = <<>>
    /\ listings_file = <<>>
    /\ removed_count = 0
    /\ file_at_start = <<>>
    /\ crawled_always = Ids
    /\ added_runs = [i \in Ids |-> 0]
    /\ ScraperIdle
    /\ RunIdle

\* time passes between two runs
Tick ==
    /\ pc = "idle"
    /\ now < MaxClock
    /\ now' = now + 1
    /\ UNCHANGED <<runVars, scrapeVars, pc, max_age_days, compareVars, mainVars>>

\* main() is entered: lines 81-106
StartRun ==
    /\ pc = "idle"
    /\ pc' = "clean"
    /\ file_at_start' = listings_file
    /\ UNCHANGED <<runVars, scrapeVars, now, max_age_days, compareVars, listings_file, removed_count,
                   crawled_always, added_runs>>

\* the listings clean_old_listings keeps
CleanedListings(listings, t) ==
    LET Keep(l) == ~_is_listing_too_old(l, t)
    IN  SelectSeq(listings, Keep)

\* line 109: storage.clean_old_listings()
CleanOldListings ==
    /\ pc = "clean"
    /\ LET listings == load_listings
           kept     == CleanedListings(listings, now)
           removed  == Len(listings) - Len(kept)
       IN  /\ removed_count' = removed
           /\ listings_file' = IF removed > 0 THEN kept ELSE listings_file
    /\ pc' = "load"
    /\ UNCHANGED <<runVars, scrapeVars, now, max_age_days, compareVars, file_at_start,
                   crawled_always, added_runs>>

\* line 113: existing_listings = storage.load_listings()
LoadExisting ==
    /\ pc = "load"
    /\ existing_listings' = load_listings
    /\ pc' = "scrape"
    /\ UNCHANGED <<runVars, scrapeVars, now, max_age_days, new_listings, added_listings,
                   updated_listings, all_current_listings, mainVars>>

\* line 118: scraper.scrape_all_cities(); the crawl takes d ticks (the sleeps
\* of _make_request) and its records are stamped when it ends
ScrapeAllCities ==
    /\ pc = "scrape"
    /\ \E d \in {0, 1} :
          /\ now + d <= MaxClock
          /\ now' = now + d
          /\ new_listings' \in SeqsUpTo(CrawledRecords(now + d), MaxLen)
    /\ crawled_always' = crawled_always \cap IdsOf(new_listings')
    /\ pc' = "compare"
    /\ UNCHANGED <<runVars, scrapeVars, max_age_days, existing_listings, added_listings,
                   updated_listings, all_current_listings, listings_file,
                   removed_count, file_at_start, added_runs>>

\* lines 125-127: storage.compare_listings(new_scraped_listings, existing_listings)
CompareInMain ==
    /\ pc = "compare"
    /\ LET r == compare_listings(new_listings, existing_listings, now)
       IN  /\ added_listings' = r.added
           /\ updated_listings' = r.updated
           /\ all_current_listings' = r.all_current
    /\ pc' = "save"
    /\ UNCHANGED <<now, max_age_days, new_listings, existing_listings, mainVars, runVars, scrapeVars>>

\* line 135: storage.save_listings(all_current_listings)
SaveListings ==
    /\ pc = "save"
    /\ listings_file' = all_current_listings
    /\ added_runs' = [i \in Ids |-> IF i \in IdsOf(added_listings)
                                  THEN added_runs[i] + 1 ELSE added_runs[i]]
    /\ pc' = "done"
    /\ UNCHANGED <<runVars, scrapeVars, now, max_age_days, compareVars, removed_count,
                   file_at_start, crawled_always>>

\* line 166: main returns and its locals are gone; the next scheduled run
\* starts from the file
ReturnFromMain ==
    /\ pc = "done"
    /\ pc' = "idle"
    /\ new_listings' = <<>>
    /\ existing_listings' = <<>>
    /\ added_listings' = <<>>
    /\ updated_listings' = <<>>
    /\ all_current_listings' = <<>>
    /\ removed_count' = 0
    /\ file_at_start' = <<>>
    /\ UNCHANGED <<runVars, scrapeVars, now, max_age_days, listings_file, crawled_always, added_runs>>

NextMain ==
    \/ Tick
    \/ StartRun
    \/ CleanOldListings
    \/ LoadExisting
    \/ ScrapeAllCities
    \/ CompareInMain
    \/ SaveListings
    \/ ReturnFromMain

SpecMain == InitMain /\ [][NextMain]_vars

-----------------------------------------------------------------------------
(* Claims about compare_listings, checked under SpecCompare *)

HasRepeatedId(listings) ==
    \E i, j \in 1..Len(listings) : i # j /\ listings[i].id = listings[j].id

\* C1: whatever the two inputs, repeated ids included, all_current_listings
\* holds each id at most once.
C1_AllCurrentIdsUnique ==
    pc = "compared" => ~HasRepeatedId(all_current_listings)

\* C1 witness: both inputs repeat an id and the result still holds two records.
C1_Witness ==
    /\ pc = "compared"
    /\ HasRepeatedId(new_listings)
    /\ HasRepeatedId(existing_listings)
    /\ Len(all_current_listings) = 2

\* C2: every id of added_listings is absent from the stored input; every id
\* of updated_listings is in the fresh input and in the stored input.
C2_AddedAbsentUpdatedInBoth ==
    pc = "compared" =>
        /\ \A i \in 1..Len(added_listings) :
              added_listings[i].id \notin IdsOf(existing_listings)
        /\ \A i \in 1..Len(updated_listings) :
              /\ updated_listings[i].id \in IdsOf(new_listings)
              /\ updated_listings[i].id \in IdsOf(existing_listings)

\* C2 witness: one comparison that yields an added and an updated record.
C2_Witness ==
    /\ pc = "compared"
    /\ added_listings # <<>>
    /\ updated_listings # <<>>
    /\ existing_listings # <<>>

\* C3 as stated: compare_listings(X, X) gives no added, no updated and as
\* many records in all_current_listings as X has.
C3_Original ==
    (pc = "compared" /\ new_listings = existing_listings) =>
        /\ added_listings = <<>>
        /\ updated_listings = <<>>
        /\ Len(all_current_listings) = Len(new_listings)

\* C3 amended: compare_listings(X, X) gives no added, no updated and as many
\* records in all_current_listings as X has distinct ids (the count of X when
\* X repeats no id).
C3_IdempotentOnDistinctIds ==
    (pc = "compared" /\ new_listings = existing_listings) =>
        /\ added_listings = <<>>
        /\ updated_listings = <<>>
        /\ Len(all_current_listings) = Cardinality(IdsOf(new_listings))
        /\ (~HasRepeatedId(new_listings) =>
               Len(all_current_listings) = Len(new_listings))

\* C3 witness: X compared with itself, two distinct ids, one of them past the
\* age limit.
C3_Witness ==
    /\ pc = "compared"
    /\ new_listings = existing_listings
    /\ Len(new_listings) = 2
    /\ ~HasRepeatedId(new_listings)
    /\ \E i \in 1..2 : now - new_listings[i].first_seen > max_age_days
    /\ Len(all_current_listings) = 2

\* C4: a record classified updated carries the stored first_seen, has
\* last_updated = now and every other field from the fresh record, and is the
\* record all_current_listings holds for the id.
C4_UpdatedKeepsFirstSeen ==
    pc = "compared" =>
        \A i \in 1..Len(updated_listings) :
            LET u      == updated_listings[i]
                stored == LastWithId(existing_listings, u.id)
                fresh  == LastWithId(new_listings, u.id)
            IN  /\ u.first_seen = stored.first_seen
                /\ u.last_updated = now
                /\ u.title = fresh.title
                /\ u.price = fresh.price
                /\ u.available = fresh.available
                /\ u.description = fresh.description
                /\ \E k \in 1..Len(all_current_listings) : all_current_listings[k] = u
                /\ \A k \in 1..Len(all_current_listings) :
                      all_current_listings[k].id = u.id => all_current_listings[k] = u

\* C4 witness: an updated record whose stored first_seen differs from the
\* fresh one and whose stored last_updated is not now.
C4_Witness ==
    /\ pc = "compared"
    /\ \E i \in 1..Len(updated_listings) :
          LET u      == updated_listings[i]
              stored == LastWithId(existing_listings, u.id)
              fresh  == LastWithId(new_listings, u.id)
          IN  /\ stored.first_seen # fresh.first_seen
              /\ stored.last_updated # now
              /\ stored.title # fresh.title
              /\ u.first_seen = stored.first_seen

-----------------------------------------------------------------------------
(* Claims about the pipeline, checked under SpecMain *)

\* the records clean_old_listings took out of the file in this run
RemovedByCleaning == Len(file_at_start) - Len(existing_listings)

\* the positions of existing_listings that compare_listings dropped for age
DroppedByCompare ==
    {i \in 1..Len(existing_listings) :
        /\ existing_listings[i].id \notin IdsOf(new_listings)
        /\ now - existing_listings[i].first_seen > max_age_days}

\* a stored record that is absent from the crawl is kept up to the age limit
\* and excluded beyond it
AbsentKeptOrExcluded ==
    \A i \in 1..Len(existing_listings) :
        LET e == existing_listings[i]
        IN  e.id \notin IdsOf(new_listings) =>
               /\ now - e.first_seen <= max_age_days =>
                     \E k \in 1..Len(all_current_listings) : all_current_listings[k] = e
               /\ now - e.first_seen > max_age_days =>
                     e.id \notin IdsOf(all_current_listings)

\* C5 as stated: a stored record absent from the crawl is in all_current up to
\* the age limit, and beyond it is excluded and counted toward the eviction
\* count (the run's only eviction count is removed_count).
C5_Original ==
    pc = "save" =>
        /\ AbsentKeptOrExcluded
        /\ removed_count = RemovedByCleaning + Cardinality(DroppedByCompare)

\* C5 amended: a stored record absent from the crawl is in all_current up to
\* the age limit and excluded beyond it (strictly greater); nothing is said
\* of a count, compare_listings keeps none.
C5_AbsentKeptUnlessTooOld ==
    pc = "save" => AbsentKeptOrExcluded

\* C5 witness: one comparison that drops a record past the limit and keeps a
\* record exactly at the limit, both absent from the crawl.
C5_Witness ==
    /\ pc = "save"
    /\ DroppedByCompare # {}
    /\ \E i \in 1..Len(existing_listings) :
          /\ existing_listings[i].id \notin IdsOf(new_listings)
          /\ now - existing_listings[i].first_seen = max_age_days
          /\ existing_listings[i].id \in IdsOf(all_current_listings)

\* C6: in a run, a persisted record is evicted (removed by the cleaning or
\* dropped by the comparison) only if it is past the age limit and its id is
\* not in the crawl; a record whose id is in the crawl is never evicted.
C6_Original ==
    pc = "done" =>
        \A i \in 1..Len(file_at_start) :
            LET r       == file_at_start[i]
                evicted == \/ r.id \notin IdsOf(existing_listings)
                           \/ r.id \notin IdsOf(all_current_listings)
            IN  /\ evicted => /\ now - r.first_seen > max_age_days
                              /\ r.id \notin IdsOf(new_listings)
                /\ r.id \in IdsOf(new_listings) => ~evicted

\* C7: for an id that was in every crawl, the first_seen persisted for it
\* never changes once stored, and at most one run classifies it as added.
C7_Original ==
    pc = "done" =>
        \A id \in crawled_always :
            /\ added_runs[id] <= 1
            /\ \A i \in 1..Len(file_at_start) :
                  file_at_start[i].id = id =>
                     /\ id \in IdsOf(listings_file)
                     /\ LastWithId(listings_file, id).first_seen
                           = file_at_start[i].first_seen

-----------------------------------------------------------------------------
(* Claims about the fetcher and the page walker, checked under SpecScrape *)

\* the positions of the requests.get calls of the current _make_request
Gets == {i \in 1..Len(events) : events[i].op = "get"}

FailedGets == {i \in Gets : events[i].arg = 0}

\* C8: _make_request makes at most max_retries attempts and none after a
\* successful one; when it returns failure it has made exactly max_retries
\* attempts, all failed; each failed attempt but the last is followed by a
\* sleep of request_delay * 2, and the last failed attempt by nothing.
C8_BoundedRetries ==
    pc \in {"fetch", "page"} =>
        /\ Cardinality(Gets) <= max_retries
        /\ \A i \in Gets : events[i].arg = 1 => \A j \in Gets : j <= i
        /\ \A i \in FailedGets :
              i < Len(events) => events[i + 1] = Sleep(request_delay * 2)
        /\ pc = "page" =>
              /\ soup.ok <=> (Gets # FailedGets)
              /\ ~soup.ok =>
                    /\ Cardinality(FailedGets) = max_retries
                    /\ max_retries > 0 => events[Len(events)].op = "get"
                    /\ Len(events) = IF max_retries = 0 THEN 0 ELSE 2 * max_retries - 1

\* C8 witness: a fetch that failed on each of at least two attempts.
C8_Witness ==
    /\ pc = "page"
    /\ ~soup.ok
    /\ max_retries >= 2
    /\ Cardinality(FailedGets) = max_retries
    /\ request_delay > 0

\* C9: a fetch that fails on every attempt returns the failure value and
\* raises nothing; after it no page of that city is fetched again (neither
\* the same page nor a further one), and no exception leaves
\* scrape_all_cities.
C9_FailedFetchHaltsCity ==
    /\ pc # "raised"
    /\ \A i \in 1..Len(fetched) :
          ~fetched[i].ok =>
             \A j \in (i + 1)..Len(fetched) : fetched[j].city # fetched[i].city
    /\ (pc = "page" /\ Gets # {} /\ Gets = FailedGets) => soup = NoSoup
    /\ (pc = "fetch" /\ fetched # <<>>
          /\ fetched[Len(fetched)].city = city_idx) => fetched[Len(fetched)].ok

\* C9 witness: the crawl returned although the first city's walk ended on a
\* fetch that failed on every one of several attempts, and the next city was
\* walked.
C9_Witness ==
    /\ pc = "returned"
    /\ max_retries >= 2
    /\ \E i \in 1..Len(fetched) :
          /\ ~fetched[i].ok
          /\ fetched[i].city = 1
          /\ fetched[i].page = 2
          /\ \E j \in (i + 1)..Len(fetched) : fetched[j].city = 2

\* C10: a successful fetch sleeps request_delay exactly once, right after the
\* successful response and as the last thing before it returns, however many
\* failed attempts came first; no failed attempt is followed by that sleep
\* (a failed attempt is followed by request_delay * 2 or by nothing).
C10_SuccessDelayOnce ==
    pc \in {"fetch", "page"} =>
        LET afterOk == {i \in 1..Len(events) :
                           /\ events[i].op = "sleep"
                           /\ i > 1
                           /\ events[i - 1] = Get("ok")}
        IN  /\ \A i \in 1..Len(events) :
                  events[i].op = "sleep" =>
                     /\ i > 1
                     /\ events[i - 1].op = "get"
                     /\ events[i].arg = IF events[i - 1].arg = 1
                                        THEN request_delay ELSE request_delay * 2
            /\ (pc = "page" /\ soup.ok) =>
                  /\ afterOk = {Len(events)}
                  /\ events[Len(events)] = Sleep(request_delay)
            /\ (pc = "fetch" \/ ~soup.ok) => afterOk = {}

\* C10 witness: a fetch that succeeded after a failed attempt, with a
\* non-zero request_delay.
C10_Witness ==
    /\ pc = "page"
    /\ soup.ok
    /\ request_delay > 0
    /\ FailedGets # {}
    /\ events[Len(events)] = Sleep(request_delay)

-----------------------------------------------------------------------------
(* The page walker and the crawl over the cities *)

\* the fetches of city c, in the order they were made
FetchesOf(c) == SelectSeq(fetched, LAMBDA f : f.city = c)

PagesInOrder ==
    \A c \in 1..Len(cities) :
       LET fs == FetchesOf(c)
       IN  \A i \in 1..Len(fs) :
              /\ fs[i].page = i
              /\ i > 1 => /\ fs[i - 1].ok
                          /\ fs[i - 1].items >= 1
                          /\ i - 1 < max_pages

\* the current page of the walk is fetched and parsed
PageInHand ==
    /\ pc = "page"
    /\ fetched # <<>>
    /\ fetched[Len(fetched)] = [city |-> city_idx, page |-> page,
                                ok |-> soup.ok, items |-> soup.items]

\* this step calls _make_request
FetchBegins == pc # "fetch" /\ pc' = "fetch"

NextPageOnlyIf ==
    /\ (FetchBegins /\ city_idx' = city_idx) =>
          /\ PageInHand
          /\ soup.ok
          /\ soup.items >= 1
          /\ soup.has_next
          /\ page < max_pages
          /\ page' = page + 1
    /\ (FetchBegins /\ city_idx' # city_idx) => page' = 1
    /\ ~FetchBegins => page' = page
    /\ Len(fetched') > Len(fetched) =>
          /\ pc = "fetch"
          /\ fetched' = Append(fetched, fetched'[Len(fetched')])
          /\ fetched'[Len(fetched')].city = city_idx
          /\ fetched'[Len(fetched')].page = page

\* C11: within a city the fetches are of pages 1, 2, 3, ... in that order,
\* each page once, and the walk moves from page n to the fetch of page n+1
\* only when page n was fetched successfully, had at least one listing
\* element, had a next-page link, and n < max_pages.
C11_NextPageOnlyAfterGoodPage == []PagesInOrder /\ [][NextPageOnlyIf]_vars

C11_Witness ==
    /\ pc = "fetch"
    /\ city_idx = 2
    /\ page = 3
    /\ Len(FetchesOf(1)) = 2
    /\ Len(FetchesOf(2)) = 2

\* the steps a _make_request call in hand can still take, counting the
\* processing of its page
FetchStepsLeft ==
    IF pc = "fetch" THEN (IF attempt < max_retries THEN max_retries - attempt ELSE 0) + 2
    ELSE IF pc = "page" THEN 1
    ELSE 0

\* an upper bound on the steps the crawl can still take: every step of the
\* crawl lowers it, and it is never negative
StepsLeft ==
    LET PageCost == max_retries + 3
        CityCost == max_pages * PageCost + 1
    IN  IF pc = "returned" THEN 0
        ELSE 1 + (Len(cities) - city_idx) * CityCost
               + (IF pc \in {"fetch", "page"}
                  THEN (max_pages - page) * PageCost + FetchStepsLeft
                  ELSE 0)

AtMostMaxPagesFetches ==
    /\ page <= max_pages
    /\ \A c \in 1..Len(cities) : Len(FetchesOf(c)) <= max_pages
    /\ StepsLeft >= 0

\* C12: a city's walk makes at most max_pages fetches, and the walk ends:
\* every step lowers a non-negative count of the steps that remain, also when
\* every page has a next-page link.
C12_AtMostMaxPagesAndEnds == []AtMostMaxPagesFetches /\ [][StepsLeft' < StepsLeft]_vars

\* all max_pages pages of a city were fetched, the last one with a next-page
\* link too, and the walk is over
C12_Witness ==
    /\ pc = "cities"
    /\ city_idx = 1
    /\ Len(FetchesOf(1)) = max_pages
    /\ \A i \in 1..Len(fetched) : fetched[i].ok
    /\ soup.ok /\ soup.items >= 1 /\ soup.has_next
    /\ Len(walks) = 1

\* the non-empty records of the listing elements of a fetched page
NonEmptyRecordsOf(f) ==
    SelectSeq([k \in 1..f.items |-> [city |-> f.city, page |-> f.page, item |-> k]],
              LAMBDA elem : elem \notin no_title_link)

\* the non-empty records of the first n pages of the fetches fs, in page order
RECURSIVE RecordsOfFirst(_, _)
RecordsOfFirst(fs, n) ==
    IF n = 0 THEN <<>>
    ELSE RecordsOfFirst(fs, n - 1) \o NonEmptyRecordsOf(fs[n])

\* the walk of city c is over and scrape_city has returned
WalkReturned(c) ==
    /\ Len(walks) >= c
    /\ walks[c].city = c
    /\ pc # "raised"

RECURSIVE Concatenated(_)
Concatenated(ws) ==
    IF ws = <<>> THEN <<>>
    ELSE Concatenated(SubSeq(ws, 1, Len(ws) - 1)) \o ws[Len(ws)].listings

\* C14: the cities are walked once each in the order of the configuration,
\* a failed fetch in one walk does not stop the later walks, and the result
\* of scrape_all_cities is the per-city results joined in that order.
C14_EveryCityOnceInOrder ==
    /\ \A i \in 1..Len(walks) : walks[i].city = i
    /\ Len(walks) = (IF pc \in {"fetch", "page"} THEN city_idx - 1 ELSE city_idx)
    /\ all_listings = Concatenated(walks)
    /\ pc = "returned" => Len(walks) = Len(cities)

\* the walk of the first city stopped at a failed fetch of page 2, and the
\* crawl returned the records of both cities
C14_Witness ==
    /\ pc = "returned"
    /\ Len(FetchesOf(1)) = 2
    /\ ~FetchesOf(1)[2].ok
    /\ Len(walks) = 2
    /\ walks[1].listings # <<>>
    /\ walks[2].listings # <<>>
    /\ all_listings = walks[1].listings \o walks[2].listings

-----------------------------------------------------------------------------
(* main.py: one run of main with everything that can go wrong in it *)

\* what opening and parsing config.json can give
ConfigStates == {"ok", "missing", "unparseable", "empty"}

\* load_config lines 31-36 with main line 98: FileNotFoundError and
\* JSONDecodeError give {}, and {} is what `not config` tests
ConfigIsFalsy_Never(cfg) == FALSE

ConfigIsFalsy(cfg) == cfg \in {"missing", "unparseable", "empty"}

\* scraper.py lines 52-57: ParariusScraper._load_config raises again what
\* main's load_config swallowed
ScraperInitRaises(cfg) == cfg \in {"missing", "unparseable"}

\* the clock of the run
RunNow == MaxAgeDays + 1

\* the records data/listings.json can hold when the run starts: one past
\* the age limit, one within it, and ones whose first_seen is null, no date
\* or not there
RunStored ==
    {[id |-> "a", title |-> "stored title", price |-> 1200,
      available |-> NoneStr, description |-> NoneStr,
      first_seen |-> f, last_updated |-> 1] :
        f \in {0, 1, NoneNum, Unparseable, Missing}}

RunFiles == {<<>>} \cup {<<r>> : r \in RunStored}

\* what the crawl of the run can return
RunCrawls == {<<>>} \cup {<<r>> : r \in CrawledRecords(RunNow)}

\* what writing a file can do: storage.py lines 86-91, main.py lines 67-72
WriteOutcomes == {"ok", "io_error"}

\* the stages of main's try block in which an exception can be raised
\* (send_notification and save_notification_history catch every Exception)
RaisingStages == {"config", "components", "clean", "load", "scrape", "compare", "save"}

InitRun ==
    /\ pc = "config"
    /\ now = RunNow
    /\ max_age_days = MaxAgeDays
    /\ new_listings = <<>>
    /\ existing_listings = <<>>
    /\ added_listings = <<>>
    /\ updated_listings = <<>>
    /\ all_current_listings = <<>>
    /\ listings_file \in RunFiles
    /\ removed_count = 0
    /\ file_at_start = listings_file
    /\ crawled_always = {}
    /\ added_runs = [i \in Ids |-> 0]
    /\ ScraperIdle
    /\ config \in ConfigStates
    /\ notifications_enabled \in BOOLEAN
    /\ stats = NewStats
    /\ exit_code = NoneNum
    /\ run_stats_file = <<>>
    /\ calls = NoCalls
    /\ path = "running"
    /\ saved = NoneStr
    /\ posted = NoneStr
    /\ last_run = NoRun

\* main lines 97-101: config = load_config(); an empty config ends the run
\* through the finally block with return 1 pending
RunLoadConfig ==
    /\ pc = "config"
    /\ IF ConfigIsFalsy(config)
       THEN /\ stats' = [stats EXCEPT !.errors = Append(@, "Failed to load configuration")]
            /\ path' = "no_config"
            /\ pc' = "finally"
       ELSE /\ pc' = "components"
            /\ UNCHANGED <<stats, path>>
    /\ UNCHANGED <<scrapeVars, now, max_age_days, compareVars, mainVars, config,
                   notifications_enabled, last_run, exit_code, run_stats_file, calls, saved, posted>>

\* main lines 151-154: except Exception appends str(e) to stats['errors']
Caught(stage) ==
    /\ stats' = [stats EXCEPT !.errors = Append(@, stage)]
    /\ path' = "raised"
    /\ pc' = "finally"

\* main lines 104-106: ParariusScraper(), ListingStorage(), GitHubNotifier()
RunCreateComponents ==
    /\ pc = "components"
    /\ IF ScraperInitRaises(config)
       THEN Caught("components")
       ELSE /\ pc' = "clean"
            /\ UNCHANGED <<stats, path>>
    /\ UNCHANGED <<scrapeVars, now, max_age_days, compareVars, mainVars, config,
                   notifications_enabled, last_run, exit_code, run_stats_file, calls, saved, posted>>

\* an exception other than the ones the stage handles is raised in it; the
\* crawl may have made fetches by then
RunRaise ==
    /\ pc \in RaisingStages
    /\ Caught(pc)
    /\ calls' = IF pc = "scrape"
                THEN [calls EXCEPT !.scrape_all_cities = @ + 1]
                ELSE calls
    /\ UNCHANGED <<scrapeVars, now, max_age_days, compareVars, mainVars, config,
                   notifications_enabled, last_run, exit_code, run_stats_file, saved, posted>>

CleanWrites_Always(removed) == TRUE

\* storage.py line 221: if removed_count > 0
CleanWrites(removed) == removed > 0

\* main line 109: storage.clean_old_listings(), which loads the file and
\* writes it back when it removed something (the write can fail, which
\* save_listings logs)
RunClean ==
    /\ pc = "clean"
    /\ LET listings == load_listings
           kept     == CleanedListings(listings, now)
           removed  == Len(listings) - Len(kept)
       IN  /\ removed_count' = removed
           /\ IF CleanWrites(removed)
              THEN /\ \E w \in WriteOutcomes :
                         listings_file' = IF w = "ok" THEN kept ELSE listings_file
                   /\ calls' = [calls EXCEPT !.load_listings = @ + 1,
                                             !.save_listings = @ + 1]
              ELSE /\ calls' = [calls EXCEPT !.load_listings = @ + 1]
                   /\ UNCHANGED listings_file
    /\ pc' = "load"
    /\ UNCHANGED <<scrapeVars, now, max_age_days, compareVars, file_at_start,
                   crawled_always, added_runs, config, notifications_enabled, last_run,
                   stats, exit_code, run_stats_file, path, saved, posted>>

\* main line 113: existing_listings = storage.load_listings()
RunLoad ==
    /\ pc = "load"
    /\ existing_listings' = load_listings
    /\ calls' = [calls EXCEPT !.load_listings = @ + 1]
    /\ pc' = "scrape"
    /\ UNCHANGED <<scrapeVars, now, max_age_days, new_listings, added_listings,
                   updated_listings, all_current_listings, mainVars, config,
                   notifications_enabled, last_run, stats, exit_code, run_stats_file,
                   path, saved, posted>>

\* main lines 118-122: the crawl; save_latest_listings then writes
\* data/latest_listings.json, which no later step reads
RunScrape ==
    /\ pc = "scrape"
    /\ new_listings' \in RunCrawls
    /\ calls' = [calls EXCEPT !.scrape_all_cities = @ + 1]
    /\ pc' = "compare"
    /\ UNCHANGED <<scrapeVars, now, max_age_days, existing_listings, added_listings,
                   updated_listings, all_current_listings, mainVars, config,
                   notifications_enabled, last_run, stats, exit_code, run_stats_file,
                   path, saved, posted>>

\* main lines 125-132: compare_listings and the counts of the stats
RunCompare ==
    /\ pc = "compare"
    /\ LET r == compare_listings(new_listings, existing_listings, now)
       IN  /\ added_listings' = r.added
           /\ updated_listings' = r.updated
           /\ all_current_listings' = r.all_current
           /\ stats' = [stats EXCEPT !.new_listings_count = Len(r.added),
                                     !.updated_listings_count = Len(r.updated),
                                     !.total_listings_count = Len(r.all_current)]
    /\ pc' = "save"
    /\ UNCHANGED <<scrapeVars, now, max_age_days, new_listings, existing_listings,
                   mainVars, config, notifications_enabled, last_run, exit_code,
                   run_stats_file, calls, path, saved, posted>>

\* storage.py lines 84-91: save_listings returns True, or False on IOError
SaveResult(w) == IF w = "ok" THEN "True" ELSE "False"

\* main line 135: storage.save_listings(all_current_listings); the returned
\* value is not looked at
RunSave ==
    /\ pc = "save"
    /\ \E w \in WriteOutcomes :
          /\ listings_file' = IF w = "ok" THEN all_current_listings ELSE listings_file
          /\ saved' = SaveResult(w)
    /\ calls' = [calls EXCEPT !.save_listings = @ + 1]
    /\ pc' = "notify"
    /\ UNCHANGED <<scrapeVars, now, max_age_days, compareVars, removed_count,
                   file_at_start, crawled_always, added_runs, config,
                   notifications_enabled, last_run, stats, exit_code, run_stats_file,
                   path, posted>>

ShouldNotify_Always(added, updated) == TRUE

\* main line 138: if added_listings or updated_listings
ShouldNotify(added, updated) == added # <<>> \/ updated # <<>>

\* what building and posting the GitHub issue can do
SinkOutcomes == {"ok", "build_error", "post_error"}

\* notification.py lines 149-190: send_notification's return value
send_notification(new, updated, enabled, o) ==
    IF new = <<>> /\ updated = <<>> THEN TRUE
    ELSE IF ~enabled THEN TRUE
    ELSE o = "ok"

AfterNotify_FailureIsFatal(sent) == IF sent THEN "success" ELSE "finally"

\* main lines 140-149: whatever send_notification returned, the run goes on
\* to mark its success
AfterNotify(sent) == "success"

\* main lines 138-146: the notification, and save_notification_history,
\* which catches every Exception
RunNotify ==
    /\ pc = "notify"
    /\ IF ShouldNotify(added_listings, updated_listings)
       THEN \E o \in (IF notifications_enabled
                      /\ (added_listings # <<>> \/ updated_listings # <<>>)
                      THEN SinkOutcomes ELSE {"not posted"}) :
               LET sent == send_notification(added_listings, updated_listings,
                                             notifications_enabled, o)
               IN  /\ posted' = o
                   /\ stats' = [stats EXCEPT !.notification_sent = sent]
                   /\ calls' = [calls EXCEPT !.send_notification = @ + 1]
                   /\ pc' = AfterNotify(sent)
       ELSE /\ pc' = "success"
            /\ UNCHANGED <<posted, stats, calls>>
    /\ UNCHANGED <<scrapeVars, now, max_age_days, compareVars, mainVars, config,
                   notifications_enabled, last_run, exit_code, run_stats_file, path, saved>>

\* main line 149: stats['success'] = True
RunSucceed ==
    /\ pc = "success"
    /\ stats' = [stats EXCEPT !.success = TRUE]
    /\ path' = "completed"
    /\ pc' = "finally"
    /\ UNCHANGED <<scrapeVars, now, max_age_days, compareVars, mainVars, config,
                   notifications_enabled, last_run, exit_code, run_stats_file, calls, saved, posted>>

StatsHistoryLimit == 100

KeepLast_KeepsAll(all, n) == all

\* main lines 63-64: all_stats[-100:]
KeepLast(all, n) == IF Len(all) > n THEN SubSeq(all, Len(all) - n + 1, Len(all)) ELSE all

\* a data/run_stats.json that json.load cannot parse
UnreadableStats == <<[unreadable |-> TRUE]>>

\* save_run_stats lines 51-57: the stored history; [] when the file is not
\* there or cannot be read
LoadRunStats(file) == IF file = UnreadableStats THEN <<>> ELSE file

\* main lines 156-164 with save_run_stats lines 51-72: the finally block
RunFinally ==
    /\ pc = "finally"
    /\ \E w \in WriteOutcomes :
          run_stats_file' = IF w = "ok"
                            THEN KeepLast(Append(LoadRunStats(run_stats_file), stats),
                                          StatsHistoryLimit)
                            ELSE run_stats_file
    /\ calls' = [calls EXCEPT !.save_run_stats = @ + 1]
    /\ pc' = "return"
    /\ UNCHANGED <<scrapeVars, now, max_age_days, compareVars, mainVars, config,
                   notifications_enabled, last_run, stats, exit_code, path, saved, posted>>

ExitCode_AlwaysZero(success) == 0

\* main line 166: return 0 if stats['success'] else 1
ExitCode(success) == IF success THEN 0 ELSE 1

\* main line 101 (the pending return 1) or line 166
RunReturn ==
    /\ pc = "return"
    /\ exit_code' = IF path = "no_config" THEN 1 ELSE ExitCode(stats.success)
    /\ pc' = "exited"
    /\ UNCHANGED <<scrapeVars, now, max_age_days, compareVars, mainVars, config,
                   notifications_enabled, last_run, stats, run_stats_file, calls, path,
                   saved, posted>>

NextRun ==
    \/ RunLoadConfig
    \/ RunCreateComponents
    \/ RunRaise
    \/ RunClean
    \/ RunLoad
    \/ RunScrape
    \/ RunCompare
    \/ RunSave
    \/ RunNotify
    \/ RunSucceed
    \/ RunFinally
    \/ RunReturn

SpecRun == InitRun /\ [][NextRun]_vars

(* main.py: a run of main and the next scheduled run, over the files the *)
(* first one left                                                        *)

\* main lines 84-93: the stats dict of the run that started as the t-th;
\* the timestamp is this position, as start times only ever grow
RunStats(t) ==
    [timestamp |-> t, success |-> FALSE, new_listings_count |-> 0,
     updated_listings_count |-> 0, total_listings_count |-> 0,
     notification_sent |-> FALSE, errors |-> <<>>]

\* the history n earlier runs left in data/run_stats.json
PriorStats(n) == [k \in 1..n |-> [RunStats(k) EXCEPT !.success = TRUE]]

\* the first run of the model comes after a full history of earlier runs
FirstRun == StatsHistoryLimit + 1

\* the model follows a run and the next one
LastRun == FirstRun + 1

\* data/run_stats.json when the first run starts: not there, not
\* parseable, one entry short of the limit, at the limit
StatsFiles ==
    {<<>>, UnreadableStats,
     PriorStats(StatsHistoryLimit - 1), PriorStats(StatsHistoryLimit)}

InitRuns ==
    /\ pc = "config"
    /\ now = RunNow
    /\ max_age_days = MaxAgeDays
    /\ new_listings = <<>>
    /\ existing_listings = <<>>
    /\ added_listings = <<>>
    /\ updated_listings = <<>>
    /\ all_current_listings = <<>>
    /\ listings_file \in RunFiles
    /\ removed_count = 0
    /\ file_at_start = listings_file
    /\ crawled_always = {}
    /\ added_runs = [i \in Ids |-> 0]
    /\ ScraperIdle
    /\ config \in ConfigStates
    /\ notifications_enabled \in BOOLEAN
    /\ stats = RunStats(FirstRun)
    /\ exit_code = NoneNum
    /\ run_stats_file \in StatsFiles
    /\ calls = NoCalls
    /\ path = "running"
    /\ saved = NoneStr
    /\ posted = NoneStr
    /\ last_run = NoRun

\* main line 166 and lines 81-93 of the next scheduled run, within the same
\* day: main's locals are gone, the files and the configuration stay
RunAgain ==
    /\ pc = "exited"
    /\ stats.timestamp < LastRun
    /\ pc' = "config"
    /\ last_run' = [crawl |-> new_listings, added |-> IdsOf(added_listings),
                    updated |-> IdsOf(updated_listings), saved |-> saved,
                    posted |-> posted]
    /\ new_listings' = <<>>
    /\ existing_listings' = <<>>
    /\ added_listings' = <<>>
    /\ updated_listings' = <<>>
    /\ all_current_listings' = <<>>
    /\ removed_count' = 0
    /\ file_at_start' = listings_file
    /\ stats' = RunStats(stats.timestamp + 1)
    /\ exit_code' = NoneNum
    /\ calls' = NoCalls
    /\ path' = "running"
    /\ saved' = NoneStr
    /\ posted' = NoneStr
    /\ UNCHANGED <<scrapeVars, now, max_age_days, listings_file, crawled_always,
                   added_runs, config, notifications_enabled, run_stats_file>>

NextRuns ==
    \/ NextRun
    \/ RunAgain

SpecRuns == InitRuns /\ [][NextRuns]_vars

-----------------------------------------------------------------------------
(* One run of main: notification, failures and the exit code *)

\* C15: send_notification is called only in a run whose added list or
\* updated list is non-empty, and at most once; when both lists are empty
\* it is not called and nothing is posted.
C15_NotifyOnlyOnChange ==
    /\ calls.send_notification <= 1
    /\ calls.send_notification > 0 => (added_listings # <<>> \/ updated_listings # <<>>)
    /\ (added_listings = <<>> /\ updated_listings = <<>>) =>
          /\ calls.send_notification = 0
          /\ posted = NoneStr
    /\ (pc \in {"success", "finally", "return", "exited"} /\ path # "raised"
          /\ (added_listings # <<>> \/ updated_listings # <<>>)) =>
          calls.send_notification = 1

\* a crawl that only changed the price of a stored listing was notified
C15_Witness ==
    /\ pc = "exited"
    /\ added_listings = <<>>
    /\ updated_listings # <<>>
    /\ calls.send_notification = 1

\* the notification was tried and failed
SinkFailed == posted \in {"build_error", "post_error"}

C17_Original ==
    (pc = "exited" /\ saved = "False") =>
       /\ ~stats.success
       /\ exit_code # 0
       /\ LET r == compare_listings(new_listings, existing_listings, now)
          IN  /\ added_listings = r.added
              /\ updated_listings = r.updated
              /\ all_current_listings = r.all_current

\* C18: when config.json is missing, unparseable or empty, main returns a
\* non-zero exit code and scrape_all_cities, the only caller of the page
\* fetcher, is never called.
C18_NoConfigNoFetch ==
    config \in {"missing", "unparseable", "empty"} =>
       /\ calls.scrape_all_cities = 0
       /\ pc \in {"config", "finally", "return", "exited"}
       /\ ~stats.success
       /\ pc = "exited" => exit_code = 1

C18_Witness ==
    /\ pc = "exited"
    /\ config = "unparseable"
    /\ path = "no_config"
    /\ exit_code = 1
    /\ calls.scrape_all_cities = 0

\* what C19 says of the exception and of the exit code
CaughtAndExitCode ==
    /\ path = "raised" => stats.errors # <<>> /\ exit_code = 1
    /\ exit_code \in {0, 1}
    /\ exit_code = 0 <=> path = "completed"

CleanWrote == IF removed_count > 0 THEN 1 ELSE 0

\* C20 as stated: a completed run has read the listings file once and
\* written it once.
C20_Original ==
    path = "completed" =>
       /\ calls.load_listings = 1
       /\ calls.save_listings = 1

\* C20: a run loads the listings file twice, in clean_old_listings and in
\* main, both before the crawl; clean_old_listings writes it when it removed
\* something, and main writes it once, after compare_listings.
C20_LoadedTwiceWrittenAtEnd ==
    /\ calls.scrape_all_cities > 0 => calls.load_listings = 2
    /\ pc \in {"config", "components", "clean"} =>
          calls.load_listings = 0 /\ calls.save_listings = 0
    /\ pc \in {"load", "scrape", "compare", "save"} => calls.save_listings = CleanWrote
    /\ path = "completed" =>
          /\ calls.load_listings = 2
          /\ calls.save_listings = 1 + CleanWrote

\* a completed run whose clean_old_listings removed the stored record
C20_Witness ==
    /\ pc = "exited"
    /\ path = "completed"
    /\ removed_count = 1
    /\ calls.load_listings = 2
    /\ calls.save_listings = 2

-----------------------------------------------------------------------------
(* scraper.py: _build_search_url as a function of city, filters and page *)

\* a filter can be missing from the config, null, zero or a positive number
FilterSets ==
    [min : {Missing, NoneNum, 0, 800}, max : {Missing, NoneNum, 0, 1500},
     min_bedrooms : {Missing, NoneNum, 0, 2}, min_size : {Missing, 0, 50}]

UrlPages == 1..3

InitUrl ==
    /\ pc = "url"
    /\ now = 0
    /\ max_age_days = MaxAgeDays
    /\ new_listings = <<>>
    /\ existing_listings = <<>>
    /\ added_listings = <<>>
    /\ updated_listings = <<>>
    /\ all_current_listings = <<>>
    /\ listings_file = <<>>
    /\ removed_count = 0
    /\ file_at_start = <<>>
    /\ crawled_always = {}
    /\ added_runs = [i \in Ids |-> 0]
    /\ RunIdle
    /\ max_retries = 0
    /\ request_delay = 0
    /\ city_idx \in 1..Len(cities)
    /\ page \in UrlPages
    /\ attempt = 0
    /\ soup = NoSoup
    /\ events = <<>>
    /\ city_listings = <<>>
    /\ all_listings = <<>>
    /\ fetched = <<>>
    /\ no_title_link = {}
    /\ walks = <<>>
    /\ filters \in FilterSets
    /\ url = <<>>
    /\ listing_elements = <<>>
    /\ extracted = <<>>

\* scrape_city line 244: url = self._build_search_url(city, page)
BuildSearchUrl ==
    /\ pc = "url"
    /\ url' = _build_search_url(cities[city_idx], filters, page)
    /\ pc' = "built"
    /\ UNCHANGED <<notScrape, max_retries, request_delay, city_idx, page, attempt,
                   soup, events, city_listings, all_listings, fetched,
                   no_title_link, walks, filters>>

NextUrl == BuildSearchUrl

SpecUrl == InitUrl /\ [][NextUrl]_vars

\* the filter has a value: the key is in the config and is not null
IsSet(value) == value # Missing /\ value # NoneNum

\* the segments C21 names for the price range
ClaimedPriceSegment ==
    IF IsSet(filters.min) /\ IsSet(filters.max)
    THEN <<[template |-> "{}-{}", values |-> <<filters.min, filters.max>>]>>
    ELSE IF IsSet(filters.min) THEN <<[template |-> "{}+", values |-> <<filters.min>>]>>
    ELSE IF IsSet(filters.max) THEN <<[template |-> "0-{}", values |-> <<filters.max>>]>>
    ELSE <<>>

ClaimedPageSegment ==
    IF page > 1 THEN <<[template |-> "page-{}", values |-> <<page>>]>> ELSE <<>>

\* C21 as stated: every filter that is set, a value of 0 included, gives its
\* segment.
C21_Original ==
    pc = "built" =>
       url = <<[template |-> "{}", values |-> <<cities[city_idx]>>]>>
             \o ClaimedPriceSegment
             \o (IF IsSet(filters.min_bedrooms)
                 THEN <<[template |-> "{}-bedrooms", values |-> <<filters.min_bedrooms>>]>>
                 ELSE <<>>)
             \o (IF IsSet(filters.min_size)
                 THEN <<[template |-> "{}-m2", values |-> <<filters.min_size>>]>>
                 ELSE <<>>)
             \o ClaimedPageSegment

\* the filter has a value other than 0
IsSetNonZero(value) == IsSet(value) /\ value # 0

\* the price segment of the code: a missing min is 0, and a 0 is dropped
\* wherever the code tests the value itself instead of `is not None`
TruthyPriceSegment ==
    IF filters.min # NoneNum /\ IsSet(filters.max)
    THEN <<[template |-> "{}-{}",
            values |-> <<IF filters.min = Missing THEN 0 ELSE filters.min, filters.max>>]>>
    ELSE IF IsSetNonZero(filters.min)
    THEN <<[template |-> "{}+", values |-> <<filters.min>>]>>
    ELSE IF IsSetNonZero(filters.max)
    THEN <<[template |-> "0-{}", values |-> <<filters.max>>]>>
    ELSE <<>>

\* C21: the url is the city, then the price segment ("{min}-{max}" when max
\* is set and min is not null, a missing min being 0; else "{min}+" for a
\* non-zero min; else "0-{max}" for a non-zero max), then "{n}-bedrooms" and
\* "{n}-m2" for non-zero values, then "page-{n}" exactly when page > 1.
C21_SegmentsInFixedOrder ==
    pc = "built" =>
       url = <<[template |-> "{}", values |-> <<cities[city_idx]>>]>>
             \o TruthyPriceSegment
             \o (IF IsSetNonZero(filters.min_bedrooms)
                 THEN <<[template |-> "{}-bedrooms", values |-> <<filters.min_bedrooms>>]>>
                 ELSE <<>>)
             \o (IF IsSetNonZero(filters.min_size)
                 THEN <<[template |-> "{}-m2", values |-> <<filters.min_size>>]>>
                 ELSE <<>>)
             \o ClaimedPageSegment

\* min_bedrooms is 0 and only the price minimum is set, on page 3
C21_Witness ==
    /\ pc = "built"
    /\ filters.min = 800
    /\ filters.max = Missing
    /\ filters.min_bedrooms = 0
    /\ filters.min_size = 50
    /\ page = 3
    /\ Len(url) = 4

-----------------------------------------------------------------------------
(* The reconciler, id by id *)

HasId(listings, id) == \E i \in 1..Len(listings) : listings[i].id = id

\* the last record of the list with this id
LastOf(listings, id) ==
    listings[CHOOSE i \in 1..Len(listings) :
                /\ listings[i].id = id
                /\ \A j \in (i + 1)..Len(listings) : listings[j].id # id]

\* the records of the list with this id
AllOf(listings, id) == SelectSeq(listings, LAMBDA l : l.id = id)

InBoth(id) == HasId(new_listings, id) /\ HasId(existing_listings, id)

\* the compared fields of the fresh and of the stored record are equal
NoDifference(id) ==
    /\ LastOf(new_listings, id).price = LastOf(existing_listings, id).price
    /\ LastOf(new_listings, id).available = LastOf(existing_listings, id).available
    /\ LastOf(new_listings, id).description = LastOf(existing_listings, id).description

\* C22: a fresh record that shows no difference to the stored one in the
\* compared fields leaves the stored record, with all its values and both
\* its timestamps, as the record of that id in all_current, and the id is
\* in neither added nor updated.
C22_UnchangedKeepsStoredVerbatim ==
    pc = "compared" =>
       \A id \in Ids :
          (InBoth(id) /\ NoDifference(id)) =>
             /\ AllOf(all_current_listings, id) = <<LastOf(existing_listings, id)>>
             /\ ~HasId(added_listings, id)
             /\ ~HasId(updated_listings, id)

\* the fresh record has another title and other timestamps than the stored
\* one, which is past the age limit, and the stored one is what is kept
C22_Witness ==
    /\ pc = "compared"
    /\ Len(new_listings) = 1
    /\ Len(existing_listings) = 1
    /\ new_listings[1].id = existing_listings[1].id
    /\ new_listings[1].price = 1200
    /\ existing_listings[1].price = 1200
    /\ new_listings[1].title # existing_listings[1].title
    /\ existing_listings[1].first_seen = 0
    /\ all_current_listings = existing_listings

\* neither record has an availability or a description
SearchListingShape(id) ==
    /\ LastOf(new_listings, id).available = NoneStr
    /\ LastOf(new_listings, id).description = NoneStr
    /\ LastOf(existing_listings, id).available = NoneStr
    /\ LastOf(existing_listings, id).description = NoneStr

\* C23: for records without availability and description, a fresh record
\* whose id is stored is in updated exactly when its price is not the stored
\* price; null is different from every number and equal to null.
C23_UpdatedIffPriceDiffers ==
    pc = "compared" =>
       \A id \in Ids :
          (InBoth(id) /\ SearchListingShape(id)) =>
             (HasId(updated_listings, id)
                <=> LastOf(new_listings, id).price # LastOf(existing_listings, id).price)

\* a null price against a stored null price is no update, a null price
\* against a stored number is one
C23_Witness ==
    /\ pc = "compared"
    /\ Len(new_listings) = 2
    /\ Len(existing_listings) = 2
    /\ new_listings[1].price = NoneNum
    /\ new_listings[2].price = NoneNum
    /\ \E i, j \in 1..2 :
          /\ existing_listings[i].id = new_listings[1].id
          /\ existing_listings[i].price = NoneNum
          /\ existing_listings[j].id = new_listings[2].id
          /\ existing_listings[j].price = 1200
    /\ Len(updated_listings) = 1
    /\ updated_listings[1].id = new_listings[2].id

\* the last fresh record of the id differs from the last stored one in a
\* compared field
Differs(id) ==
    \/ LastOf(new_listings, id).price # LastOf(existing_listings, id).price
    \/ LastOf(new_listings, id).available # LastOf(existing_listings, id).available
    \/ LastOf(new_listings, id).description # LastOf(existing_listings, id).description

\* C24: of several records with one id in an input, the last one in input
\* order decides: the id is added, updated or unchanged by what the last
\* fresh and the last stored record of the id are, the outputs hold the
\* record made from those, and no output holds the id twice.
C24_LastOccurrenceWins ==
    pc = "compared" =>
       \A id \in Ids :
          HasId(new_listings, id) =>
             LET n == LastOf(new_listings, id)
             IN  IF ~HasId(existing_listings, id)
                 THEN /\ AllOf(added_listings, id) = <<n>>
                      /\ AllOf(updated_listings, id) = <<>>
                      /\ AllOf(all_current_listings, id) = <<n>>
                 ELSE LET e == LastOf(existing_listings, id)
                          u == [n EXCEPT !.first_seen = e.first_seen, !.last_updated = now]
                      IN  /\ AllOf(added_listings, id) = <<>>
                          /\ AllOf(updated_listings, id) = (IF Differs(id) THEN <<u>> ELSE <<>>)
                          /\ AllOf(all_current_listings, id) =
                                (IF Differs(id) THEN <<u>> ELSE <<e>>)

\* the crawl holds one id twice, first at another price and last at the
\* stored price: the id is unchanged
C24_Witness ==
    /\ pc = "compared"
    /\ Len(new_listings) = 2
    /\ new_listings[1].id = new_listings[2].id
    /\ new_listings[1].price = 1300
    /\ new_listings[2].price = 1200
    /\ Len(existing_listings) = 1
    /\ existing_listings[1].id = new_listings[1].id
    /\ existing_listings[1].price = 1200
    /\ updated_listings = <<>>
    /\ added_listings = <<>>
    /\ all_current_listings = existing_listings

\* C25: the ids of all_current are the ids of the crawl together with the
\* ids of the stored records that the crawl does not have and that are not
\* too old (a stored id stands for its last record).
C25_AllCurrentIds ==
    pc = "compared" =>
       {all_current_listings[i].id : i \in 1..Len(all_current_listings)}
          = {new_listings[i].id : i \in 1..Len(new_listings)}
            \cup {id \in Ids :
                    /\ HasId(existing_listings, id)
                    /\ ~HasId(new_listings, id)
                    /\ ~(now - LastOf(existing_listings, id).first_seen > max_age_days)}

\* one stored id is crawled again although past the age limit, the other is
\* not crawled and past the age limit: only the first is in all_current
C25_Witness ==
    /\ pc = "compared"
    /\ Len(new_listings) = 1
    /\ Len(existing_listings) = 2
    /\ existing_listings[1].id = new_listings[1].id
    /\ existing_listings[2].id # new_listings[1].id
    /\ existing_listings[1].first_seen = 0
    /\ existing_listings[2].first_seen = 0
    /\ Len(all_current_listings) = 1
    /\ all_current_listings[1].id = new_listings[1].id

-----------------------------------------------------------------------------
(* Stored records whose first_seen is no date *)

\* first_seen is null, cannot be parsed, or is not in the record
BadFirstSeen(listing) == listing.first_seen \in {NoneNum, Unparseable, Missing}

\* the run is past compare_listings
Reconciled == pc \in {"save", "notify", "success"} \/ path = "completed"

-----------------------------------------------------------------------------
(* scraper.py: _extract_listing_data *)

(* A string is the sequence of its characters; a run of letters that no     *)
(* pattern of the extractor looks into is written as one character.         *)

Digits == {"0", "1", "2", "3", "4", "5", "6", "7", "8", "9"}

DigitValue ==
    "0" :> 0 @@ "1" :> 1 @@ "2" :> 2 @@ "3" :> 3 @@ "4" :> 4 @@
    "5" :> 5 @@ "6" :> 6 @@ "7" :> 7 @@ "8" :> 8 @@ "9" :> 9

\* None where the value would be a string
NoneText == <<NoneStr>>

\* \s
Spaces == {" "}

IsSpace(c) == c \in Spaces

\* str.strip()
RECURSIVE Strip(_)
Strip(text) ==
    IF text = <<>> THEN <<>>
    ELSE IF IsSpace(text[1]) THEN Strip(Tail(text))
    ELSE IF IsSpace(text[Len(text)]) THEN Strip(SubSeq(text, 1, Len(text) - 1))
    ELSE text

\* the first position from i on that does not hold a character of the class
RECURSIVE EndOfRun(_, _, _)
EndOfRun(text, i, class) ==
    IF i <= Len(text) /\ text[i] \in class THEN EndOfRun(text, i + 1, class) ELSE i

\* int() and float() of a string of digits
RECURSIVE NumberOf(_)
NumberOf(digits) ==
    IF digits = <<>> THEN 0
    ELSE 10 * NumberOf(SubSeq(digits, 1, Len(digits) - 1)) + DigitValue[digits[Len(digits)]]

\* [\d,.]
PriceChars == Digits \cup {",", "."}

\* re.search(r'€\s*([\d,.]+)', text): group 1 of the leftmost match, or the
\* empty string when nothing matches
PriceMatch(text) ==
    LET StartOfGroup(i) == EndOfRun(text, i + 1, Spaces)
        Matches == {i \in 1..Len(text) :
                       /\ text[i] = "€"
                       /\ StartOfGroup(i) <= Len(text)
                       /\ text[StartOfGroup(i)] \in PriceChars}
    IN  IF Matches = {} THEN <<>>
        ELSE LET i == CHOOSE m \in Matches : \A n \in Matches : m <= n
                 j == StartOfGroup(i)
             IN  SubSeq(text, j, EndOfRun(text, j, PriceChars) - 1)

\* re.search(r'(\d+)\s*UNIT', text) for the units m² and room(s): group 1
\* of the leftmost match, or the empty string
NumberBefore(text, units) ==
    LET After(i) == EndOfRun(text, EndOfRun(text, i, Digits), Spaces)
        Matches == {i \in 1..Len(text) :
                       /\ text[i] \in Digits
                       /\ After(i) <= Len(text)
                       /\ text[After(i)] \in units}
    IN  IF Matches = {} THEN <<>>
        ELSE LET i == CHOOSE m \in Matches : \A n \in Matches : m <= n
             IN  SubSeq(text, i, EndOfRun(text, i, Digits) - 1)

\* str.split('/')[-1]
LastSegment(text) ==
    LET Slashes == {i \in 1..Len(text) : text[i] = "/"}
    IN  IF Slashes = {} THEN text
        ELSE SubSeq(text, (CHOOSE m \in Slashes : \A n \in Slashes : m >= n) + 1, Len(text))

\* "https://www.pararius.com"
SiteOrigin == <<"https:", "/", "/", "www.pararius.com">>

(* A listing element is the sequence of the elements inside it, in document *)
(* order.  An element has a tag, classes, a text, the names of its          *)
(* attributes with the value of its href or src, and the classes of the     *)
(* elements it lies within.                                                 *)

Element(tag, classes, text, attrs, value, within) ==
    [tag |-> tag, classes |-> classes, text |-> text,
     attrs |-> attrs, value |-> value, within |-> within]

\* select_one found nothing
NoElement == Element("", {}, <<>>, {}, <<>>, {})

\* the class names that hold one of the substrings the extractor looks for
ClassesHolding ==
    [part \in {"sub-title", "surface-area", "number-of-rooms", "interior"} |->
        CASE part = "sub-title" -> {"listing-search-item__sub-title"}
          [] part = "surface-area" -> {"illustrated-features__item--surface-area"}
          [] part = "number-of-rooms" -> {"illustrated-features__item--number-of-rooms",
                                          "number-of-rooms"}
          [] part = "interior" -> {"illustrated-features__item--interior", "interior"}]

\* any(part in cls for cls in classes)
AnyClassHolds(classes, part) == classes \cap ClassesHolding[part] # {}

\* select_one: the first element that matches
SelectOne(matching) == IF matching = <<>> THEN NoElement ELSE matching[1]

\* the CSS selector tag.class
TagWithClass(elems, tag, class) ==
    SelectSeq(elems, LAMBDA e : e.tag = tag /\ class \in e.classes)

\* the CSS selector .class
WithClass(elems, class) == SelectSeq(elems, LAMBDA e : class \in e.classes)

\* the CSS selector .outer .class
WithClassInside(elems, outer, class) ==
    SelectSeq(elems, LAMBDA e : class \in e.classes /\ outer \in e.within)

\* the outcomes of the body of _extract_listing_data other than a record
EmptyDict == [empty |-> TRUE]

Raised(exception) == [raised |-> exception]

IsRaised(result) == "raised" \in DOMAIN result

\* lines 158-160: the text the price pattern matched, <<>> when none
PriceGroup(elems) ==
    LET price_elem == SelectOne(WithClass(elems, "listing-search-item__price"))
        price_text == IF price_elem # NoElement THEN Strip(price_elem.text)
                      ELSE <<"Unknown">>
    IN  PriceMatch(price_text)

\* line 161: float('') raises when the match holds separators only
PriceRaises(elems) ==
    /\ PriceGroup(elems) # <<>>
    /\ SelectSeq(PriceGroup(elems), LAMBDA c : c \in Digits) = <<>>

\* line 161
PriceOf(elems) ==
    IF PriceGroup(elems) = <<>> THEN NoneNum
    ELSE NumberOf(SelectSeq(PriceGroup(elems), LAMBDA c : c \in Digits))

\* lines 165-179
LocationOf(elems) ==
    LET direct   == SelectOne(TagWithClass(elems, "div", "listing-search-item__sub-title"))
        fallback == SelectOne(SelectSeq(elems, LAMBDA e :
                        e.tag = "div" /\ AnyClassHolds(e.classes, "sub-title")))
        location_elem == IF direct # NoElement THEN direct ELSE fallback
    IN  IF location_elem # NoElement THEN Strip(location_elem.text) ELSE <<"Unknown">>

\* lines 191, 196, 201: the feature an item stands for
FeatureRole(item) ==
    IF AnyClassHolds(item.classes, "surface-area") THEN "size"
    ELSE IF AnyClassHolds(item.classes, "number-of-rooms") THEN "rooms"
    ELSE IF AnyClassHolds(item.classes, "interior") THEN "interior"
    ELSE "none"

\* lines 185-202: the items of one role; the last one sets the feature
FeatureItems(elems, role) ==
    SelectSeq(WithClass(elems, "illustrated-features__item"),
              LAMBDA item : FeatureRole(item) = role)

\* lines 192-193, 197-198 and 217-218: the number of the last item of the
\* role, None when there is no item or its text has no match
NumberFeature(elems, role, units) ==
    LET items == FeatureItems(elems, role)
        match == IF items = <<>> THEN <<>>
                 ELSE NumberBefore(Strip(items[Len(items)].text), units)
    IN  IF match = <<>> THEN NoneNum ELSE NumberOf(match)

\* lines 202 and 220
InteriorOf(elems) ==
    LET items == FeatureItems(elems, "interior")
    IN  IF items = <<>> THEN <<"Unknown">> ELSE Strip(items[Len(items)].text)

ImageUrlOf_AnyImage(elems) ==
    LET image_elem == SelectOne(SelectSeq(elems, LAMBDA e : e.tag = "img"))
    IN  IF image_elem # NoElement /\ "src" \in image_elem.attrs
        THEN image_elem.value ELSE NoneText

\* lines 205-206
ImageUrlOf(elems) ==
    LET image_elem == SelectOne(TagWithClass(elems, "img", "picture__image"))
    IN  IF image_elem # NoElement /\ "src" \in image_elem.attrs
        THEN image_elem.value ELSE NoneText

\* lines 209-210
AgencyOf(elems) ==
    LET agency_elem == SelectOne(WithClassInside(elems, "listing-search-item__info",
                                                 "listing-search-item__link"))
    IN  IF agency_elem # NoElement THEN Strip(agency_elem.text) ELSE <<"Unknown">>

\* lines 148-225: the body of the try block at time t
ExtractBody(elems, t) ==
    LET listing_link == SelectOne(TagWithClass(elems, "a", "listing-search-item__link--title"))
    IN  IF listing_link = NoElement THEN EmptyDict
        ELSE IF "href" \notin listing_link.attrs THEN Raised("KeyError")
        ELSE IF PriceRaises(elems) THEN Raised("ValueError")
        ELSE LET link_url == SiteOrigin \o listing_link.value
             IN  [id |-> LastSegment(link_url),
                  url |-> link_url,
                  title |-> Strip(listing_link.text),
                  price |-> PriceOf(elems),
                  size |-> NumberFeature(elems, "size", {"m²"}),
                  rooms |-> NumberFeature(elems, "rooms", {"room", "rooms"}),
                  location |-> LocationOf(elems),
                  interior |-> InteriorOf(elems),
                  image_url |-> ImageUrlOf(elems),
                  agency |-> AgencyOf(elems),
                  first_seen |-> t,
                  last_updated |-> t]

_extract_listing_data_Raises(elems, t) == ExtractBody(elems, t)

\* lines 147 and 226-228: whatever the body raises ends as the empty dict
_extract_listing_data(elems, t) ==
    IF IsRaised(ExtractBody(elems, t)) THEN EmptyDict ELSE ExtractBody(elems, t)

(* scraper.py: _extract_listing_data over the listing elements of one page *)

TestLink == <<"/", "apartment-for-rent", "/", "rotterdam", "/", "test123">>

TestImage == <<"https:", "/", "/", "www.pararius.com", "/", "images", "/", "test.jpg">>

\* the title anchor: none, with its href, without an href
TitleAnchors ==
    {<<>>,
     <<Element("a", {"listing-search-item__link--title"}, <<"Test Apartment">>,
               {"href"}, TestLink, {})>>,
     <<Element("a", {"listing-search-item__link--title"}, <<"Test Apartment">>,
               {}, <<>>, {})>>}

PriceElement(text) == <<Element("div", {"listing-search-item__price"}, text, {}, <<>>, {})>>

\* the price element: none, a monthly rent, a text without the currency sign,
\* a currency sign followed by separators only
PriceElements ==
    {<<>>,
     PriceElement(<<"€", " ", "1", ",", "2", "0", "0", " ", "per month">>),
     PriceElement(<<"Price on request">>),
     PriceElement(<<"€", " ", ",", "-">>)}

Feature(classes, text, container) == Element("li", classes, text, {}, <<>>, {container})

\* the features: none, classed as in tests/test_scraper.py, classed as the
\* extractor expects them
FeatureElements ==
    {<<>>,
     <<Feature({"surface"}, <<"7", "5", " ", "m²">>, "listing-search-item__features"),
       Feature({"number-of-rooms"}, <<"3", " ", "rooms">>, "listing-search-item__features"),
       Feature({"interior"}, <<"Furnished">>, "listing-search-item__features")>>,
     <<Feature({"illustrated-features__item", "illustrated-features__item--surface-area"},
               <<"7", "5", " ", "m²">>, "illustrated-features"),
       Feature({"illustrated-features__item", "illustrated-features__item--number-of-rooms"},
               <<"3", " ", "rooms">>, "illustrated-features"),
       Feature({"illustrated-features__item", "illustrated-features__item--interior"},
               <<"Furnished">>, "illustrated-features")>>}

\* the location: none, classed as in the test, classed as the extractor expects
LocationElements ==
    {<<>>,
     <<Element("div", {"listing-search-item__location"}, <<"Rotterdam, Centrum">>,
               {}, <<>>, {})>>,
     <<Element("div", {"listing-search-item__sub-title"}, <<"Rotterdam, Centrum">>,
               {}, <<>>, {})>>}

\* the image: none, an img without a class, an img classed picture__image
ImageElements ==
    {<<>>,
     <<Element("img", {}, <<>>, {"src"}, TestImage, {"listing-search-item__image"})>>,
     <<Element("img", {"picture__image"}, <<>>, {"src"}, TestImage, {"picture"})>>}

\* the agency link: none, a link inside the info block
AgencyElements ==
    {<<>>,
     <<Element("a", {"listing-search-item__link"}, <<"Test Agency">>, {}, <<>>,
               {"listing-search-item__info"})>>}

\* the listing elements the model extracts from
Fragments ==
    {a \o p \o f \o l \o i \o g :
        a \in TitleAnchors, p \in PriceElements, f \in FeatureElements,
        l \in LocationElements, i \in ImageElements, g \in AgencyElements}

\* the listing element of tests/test_scraper.py lines 102-116
TestFragment ==
    <<Element("a", {"listing-search-item__link--title"}, <<"Test Apartment">>,
              {"href"}, TestLink, {})>>
    \o PriceElement(<<"€", " ", "1", ",", "2", "0", "0", " ", "per month">>)
    \o <<Feature({"surface"}, <<"7", "5", " ", "m²">>, "listing-search-item__features"),
          Feature({"number-of-rooms"}, <<"3", " ", "rooms">>, "listing-search-item__features"),
          Feature({"interior"}, <<"Furnished">>, "listing-search-item__features")>>
    \o <<Element("div", {"listing-search-item__location"}, <<"Rotterdam, Centrum">>,
                  {}, <<>>, {})>>
    \o <<Element("img", {}, <<>>, {"src"}, TestImage, {"listing-search-item__image"})>>
    \o <<Element("a", {"listing-search-item__link"}, <<"Test Agency">>, {}, <<>>,
                  {"listing-search-item__info"})>>

\* the elements of a page of two: the test's element, one without a title
\* anchor, one without an href, one whose price text makes float() raise
PairFragments ==
    {TestFragment,
     PriceElement(<<"Price on request">>),
     <<Element("a", {"listing-search-item__link--title"}, <<"Test Apartment">>,
               {}, <<>>, {})>>,
     <<Element("a", {"listing-search-item__link--title"}, <<"Test Apartment">>,
               {"href"}, TestLink, {})>> \o PriceElement(<<"€", " ", ",", "-">>)}

\* the pages of listing elements: one element of any shape, or two
ListingPages ==
    {<<e>> : e \in Fragments} \cup {<<d, e>> : d \in PairFragments, e \in PairFragments}

InitExtract ==
    /\ pc = "extract"
    /\ now = 0
    /\ max_age_days = MaxAgeDays
    /\ new_listings = <<>>
    /\ existing_listings = <<>>
    /\ added_listings = <<>>
    /\ updated_listings = <<>>
    /\ all_current_listings = <<>>
    /\ listings_file = <<>>
    /\ removed_count = 0
    /\ file_at_start = <<>>
    /\ crawled_always = {}
    /\ added_runs = [i \in Ids |-> 0]
    /\ RunIdle
    /\ max_retries = 0
    /\ request_delay = 0
    /\ city_idx = 1
    /\ page \in {1, max_pages}
    /\ attempt = 0
    /\ listing_elements \in ListingPages
    /\ \E has_next \in BOOLEAN :
          soup = [ok |-> TRUE, items |-> Len(listing_elements), has_next |-> has_next]
    /\ events = <<>>
    /\ city_listings = <<>>
    /\ all_listings = <<>>
    /\ fetched = <<>>
    /\ no_title_link = {}
    /\ walks = <<>>
    /\ filters = NoFilters
    /\ url = <<>>
    /\ extracted = <<>>

Appended_KeepsEmpty(listings, listing_data) == Append(listings, listing_data)

\* scrape_city lines 263-264: an empty dict is falsy and is not appended
Appended(listings, listing_data) ==
    IF listing_data # EmptyDict THEN Append(listings, listing_data) ELSE listings

notExtract == <<now, max_age_days, compareVars, mainVars, runVars,
                max_retries, request_delay, city_idx, attempt, soup, events,
                all_listings, fetched, no_title_link, walks, filters, url,
                listing_elements>>

\* scrape_city lines 261-264: one pass of the loop over listing_elements; an
\* exception that left _extract_listing_data would leave scrape_city too
ExtractNext ==
    /\ pc = "extract"
    /\ Len(extracted) < Len(listing_elements)
    /\ LET listing_data == _extract_listing_data(listing_elements[Len(extracted) + 1], now)
       IN  /\ extracted' = Append(extracted, listing_data)
           /\ IF IsRaised(listing_data)
              THEN pc' = "raised" /\ UNCHANGED city_listings
              ELSE /\ pc' = "extract"
                   /\ city_listings' = Appended(city_listings, listing_data)
    /\ UNCHANGED <<notExtract, page>>

\* scrape_city lines 266-272 and the head of the loop at line 243
FinishPage ==
    /\ pc = "extract"
    /\ Len(extracted) = Len(listing_elements)
    /\ IF WalkDecision(soup, page) = "next"
       THEN pc' = "fetch" /\ page' = page + 1
       ELSE pc' = "returned" /\ UNCHANGED page
    /\ UNCHANGED <<notExtract, city_listings, extracted>>

NextExtract ==
    \/ ExtractNext
    \/ FinishPage

SpecExtract == InitExtract /\ [][NextExtract]_vars

-----------------------------------------------------------------------------
(* Claims about the field extractor *)

\* the k-th listing element of the page has been through _extract_listing_data
Extracted(k) == k \in 1..Len(extracted)

\* the result is a listing record rather than the empty dict
IsRecord(result) == "id" \in DOMAIN result

\* the element holds a title anchor that carries a link
HasTitleLink(elems) ==
    \E i \in 1..Len(elems) :
        /\ elems[i].tag = "a"
        /\ "listing-search-item__link--title" \in elems[i].classes
        /\ "href" \in elems[i].attrs

\* the text holds a currency sign followed, after spaces, by a number: a run
\* of digits and separators with a digit in it
HasCurrencyNumber(text) ==
    \E i \in 1..Len(text) : \E j \in i + 1..Len(text) :
        /\ text[i] = "€"
        /\ \A m \in i + 1..j - 1 : text[m] \in {" ", ",", "."}
        /\ \A m \in i + 1..j - 1 : text[m] = " " => \A n \in i + 1..m : text[n] = " "
        /\ text[j] \in Digits

\* the element has no price element, or none with a currency-prefixed number
HasNoPrice(elems) ==
    \A i \in 1..Len(elems) :
        "listing-search-item__price" \in elems[i].classes => ~HasCurrencyNumber(elems[i].text)

\* C27: a listing element with a title link and without a price element, or
\* with a price element that holds no currency-prefixed number, gives a
\* record whose price is null: not the empty result, not price 0, and no
\* exception leaves the extractor.
C27_Original ==
    /\ pc # "raised"
    /\ \A k \in 1..Len(extracted) :
          HasTitleLink(listing_elements[k]) /\ HasNoPrice(listing_elements[k])
          => /\ IsRecord(extracted[k])
             /\ extracted[k].price = NoneNum

\* the id is what follows the last "/" of the url
IsLastPathSegment(id, link_url) ==
    \E i \in 1..Len(link_url) :
        /\ link_url[i] = "/"
        /\ id = SubSeq(link_url, i + 1, Len(link_url))
        /\ \A j \in 1..Len(id) : id[j] # "/"

\* C28: a listing element without a title anchor, or whose title anchor has
\* no link attribute, gives the empty result; scrape_city appends no empty
\* result, so its list holds exactly the records extracted so far, each from
\* an element with a title link and each with the last path segment of its
\* url as id.
C28_NoRecordWithoutLink ==
    /\ \A k \in 1..Len(extracted) :
          ~HasTitleLink(listing_elements[k]) => extracted[k] = [empty |-> TRUE]
    /\ city_listings = SelectSeq(extracted, IsRecord)
    /\ \A i \in 1..Len(city_listings) :
          /\ IsLastPathSegment(city_listings[i].id, city_listings[i].url)
          /\ \E k \in 1..Len(extracted) :
                extracted[k] = city_listings[i] /\ HasTitleLink(listing_elements[k])

\* a page of two elements is done: the first has a title anchor without a
\* link and was dropped, the second gave the one record of the list
C28_Witness ==
    /\ pc = "returned"
    /\ Len(extracted) = 2
    /\ \E i \in 1..Len(listing_elements[1]) :
          /\ "listing-search-item__link--title" \in listing_elements[1][i].classes
          /\ "href" \notin listing_elements[1][i].attrs
    /\ extracted[1] = [empty |-> TRUE]
    /\ Len(city_listings) = 1
    /\ city_listings[1].id = <<"test123">>

\* the element's title anchor has no link attribute: its subscript raises
TitleAnchorWithoutLink(elems) ==
    /\ ~HasTitleLink(elems)
    /\ \E i \in 1..Len(elems) :
          elems[i].tag = "a" /\ "listing-search-item__link--title" \in elems[i].classes

\* the text holds a currency sign followed, after spaces, by a run of
\* separators that ends without a digit: float() raises on what is left
HasCurrencySeparatorsOnly(text) ==
    \E i \in 1..Len(text) : \E j \in i + 1..Len(text) : \E e \in j..Len(text) :
        /\ text[i] = "€"
        /\ \A m \in i + 1..j - 1 : text[m] = " "
        /\ \A m \in j..e : text[m] \in {",", "."}
        /\ e < Len(text) => text[e + 1] \notin PriceChars

\* extracting the element fails inside _extract_listing_data
FailsInside(elems) ==
    \/ TitleAnchorWithoutLink(elems)
    \/ /\ HasTitleLink(elems)
       /\ \E i \in 1..Len(elems) :
             /\ "listing-search-item__price" \in elems[i].classes
             /\ HasCurrencySeparatorsOnly(elems[i].text)

\* C29: no exception leaves _extract_listing_data: an element whose
\* extraction fails inside gives the empty result and is skipped, the loop
\* goes on to the next element until every element of the page has been
\* through the extractor, and the walk then asks for the next page exactly
\* when the page has a next-page marker and is not the last allowed page.
C29_ExtractionFailureIsSkipped ==
    /\ [](/\ pc # "raised"
          /\ \A k \in 1..Len(extracted) :
                FailsInside(listing_elements[k]) => extracted[k] = [empty |-> TRUE]
          /\ Len(city_listings) = Cardinality({k \in 1..Len(extracted) : IsRecord(extracted[k])})
          /\ pc \in {"fetch", "returned"} => Len(extracted) = Len(listing_elements))
    /\ [][/\ Len(extracted) < Len(listing_elements)
             => pc' = "extract" /\ Len(extracted') = Len(extracted) + 1
          /\ Len(extracted) = Len(listing_elements)
             => /\ extracted' = extracted
                /\ pc' = IF soup.has_next /\ page < max_pages THEN "fetch" ELSE "returned"
                /\ page' = IF soup.has_next /\ page < max_pages THEN page + 1 ELSE page]_vars

\* a page of two elements: the first has a price of separators only, failed
\* inside and was skipped, the second gave a record, and the walk went on to
\* fetch the next page
C29_Witness ==
    /\ pc = "fetch"
    /\ page = 2
    /\ Len(extracted) = 2
    /\ HasTitleLink(listing_elements[1])
    /\ FailsInside(listing_elements[1])
    /\ extracted[1] = [empty |-> TRUE]
    /\ Len(city_listings) = 1
    /\ city_listings[1] = extracted[2]

\* the element holds an element with all of the classes
HasClassed(elems, classes) ==
    \E i \in 1..Len(elems) : classes \subseteq elems[i].classes

\* the fields C30 names that the extractor does return for the test's element
TestRecordCore(record) ==
    /\ record.id = <<"test123">>
    /\ record.url = <<"https:", "/", "/", "www.pararius.com",
                      "/", "apartment-for-rent", "/", "rotterdam", "/", "test123">>
    /\ record.title = <<"Test Apartment">>
    /\ record.price = 1200
    /\ record.agency = <<"Test Agency">>

-----------------------------------------------------------------------------
(* Claims about the whole crawl and about successive runs *)

\* the seconds the call waited: what a time.sleep was given, nothing for a request
Waited(call) == IF call.op = "sleep" THEN call.arg ELSE 0

\* the call waited at least request_delay seconds
IsFullDelay(call) == Waited(call) >= request_delay

\* the next request of the crawl belongs to a new _make_request call: the
\* walk moves to the next page or the next city while the calls of the
\* previous _make_request are still in hand
NextRequestAfter(calls_made) ==
    /\ calls_made # <<>>
    /\ pc' = "fetch"
    /\ events' = <<>>
    /\ max_retries > 0

\* C31: between two consecutive requests of the crawl lies a sleep of at
\* least request_delay: inside one _make_request every request but the
\* first follows a sleep, and the first request for the next page or the
\* next city follows a _make_request whose last call was a sleep.
C31_Original ==
    /\ [](\A i \in 2..Len(events) :
             events[i].op = "get" => IsFullDelay(events[i - 1]))
    /\ [][NextRequestAfter(events) => IsFullDelay(events[Len(events)])]_vars

\* the notification of the run before this one was handed to the sink and failed
LastNotificationFailed == last_run.posted \in {"build_error", "post_error"}

\* compare_listings of this run has classified the crawl
Classified == pc \in {"save", "notify", "success"}

\* the crawl is the one of the run before: same ids, same compared fields
SameCrawlAsLastRun ==
    /\ Len(new_listings) = Len(last_run.crawl)
    /\ \A i \in 1..Len(new_listings) :
          /\ new_listings[i].id = last_run.crawl[i].id
          /\ new_listings[i].price = last_run.crawl[i].price
          /\ new_listings[i].available = last_run.crawl[i].available
          /\ new_listings[i].description = last_run.crawl[i].description

\* C32: when the sink is called the file holds the canonical record set of
\* the run, and a listing that the run before classified as added or
\* updated, with a notification that failed, is neither added nor updated
\* in this run when the crawl is unchanged.
C32_Original ==
    /\ calls.send_notification > 0 => listings_file = all_current_listings
    /\ LastNotificationFailed /\ Classified /\ SameCrawlAsLastRun
       => \A i \in 1..Len(added_listings \o updated_listings) :
             (added_listings \o updated_listings)[i].id
                 \notin last_run.added \cup last_run.updated

\* C33: compare_listings called again at the same time, with the crawl
\* observed again and the first call's all_current as the stored set, finds
\* nothing added and nothing updated and returns that stored set record for
\* record.
C33_StableOnRepeatedCrawl ==
    pc = "compared again"
    => /\ added_listings = <<>>
       /\ updated_listings = <<>>
       /\ all_current_listings = existing_listings

\* the second call has returned; the first one had updated a listing first
\* seen past the age limit and carried over a stored one the crawl lacks
C33_Witness ==
    /\ pc = "compared again"
    /\ \E i \in 1..Len(all_current_listings) :
          /\ all_current_listings[i].title = "fresh title"
          /\ all_current_listings[i].first_seen = 0
          /\ all_current_listings[i].last_updated = now
    /\ \E i \in 1..Len(all_current_listings) :
          /\ all_current_listings[i].title = "stored title"
          /\ \A j \in 1..Len(new_listings) :
                new_listings[j].id # all_current_listings[i].id

\* save_run_stats has returned in this run
StatsSaved == pc \in {"return", "exited"}

\* the entries are in the order their runs started
Chronological(history) ==
    \A i \in 1..Len(history) - 1 : history[i].timestamp < history[i + 1].timestamp

ReadableHistory == IF run_stats_file = <<[unreadable |-> TRUE]>> THEN <<>> ELSE run_stats_file

====
